---- MODULE Spec2Model ----
(***************************************************************************)
(* A model of the conic signaling relay:                                   *)
(*   - websocket.Connection (send queue, Close, write pump),               *)
(*   - hub.Hub (registry, four request queues, worker, Stop),              *)
(*   - domain.client (the peer client the hub registers),                  *)
(*   - the relay handlers of package signal (envelope forwarding),         *)
(*   - the session of one connection (read pump, router, handlers),        *)
(*   - the configuration loader and the envelope codec,                    *)
(*   - the hub with unbuffered channels and its sockets (package conic),   *)
(*   - the ICE candidate queue of webrtc.PeerConnection.                   *)
(* Each subsystem has its own specification over the shared variables.     *)
(***************************************************************************)
EXTENDS Integers, Sequences, FiniteSets, TLC

VARIABLES
    \* ---- websocket.Connection ----
    closed,         \* Connection.closed
    cctxDone,       \* Connection.ctx is cancelled
    sendChan,       \* buffered frames of Connection.sendChan
    chanClosed,     \* close(c.sendChan) has run
    wsClosed,       \* the transport (ws.Conn) is closed
    nCancel,        \* how often c.cancel() ran
    nChanClose,     \* how often close(c.sendChan) ran
    nWsClose,       \* how often c.conn.Close() ran
    written,        \* text frames the write pump wrote to the transport
    closeFrames,    \* close frames the write pump wrote
    nDrained,       \* frames written by the drain loop of the write pump
    accepted,       \* frames whose Send enqueued (returned nil), in order
    nextMsg,        \* next fresh frame
    sPc, sMsg, sCtx, sAfter,   \* calls of Send in flight
    lastRes,        \* what the call of Send that returned last returned
    lastAfter,      \* ... and whether it began after a Close had returned
    lastFull,       \* ... and whether its select found the open queue full
    lastCtx,        \* ... and whether its caller's context was cancelled
    kPc, kRes, kFirst,         \* callers of Close
    closeReturned,  \* some call of Close has returned
    nAtClose,       \* frames Send had accepted when Close took effect
    wPc, wN,        \* write pump: position, frames left in the drain loop
    startCtxDone,   \* the context passed to Start is cancelled
    panicked,       \* a goroutine panicked (the process is gone)
    \* ---- hub.Hub and the clients (domain.client) it registers ----
    hStarted,       \* Start has run: h.ctx and h.cancel are set
    hCtxDone,       \* h.ctx is cancelled
    workerUp,       \* the goroutine of Hub.run is running
    stopPc,         \* position of the call of Stop
    stopSnapshot,   \* the clients in the registry when Stop was invoked
    chansClosed,    \* Stop has closed the four channels
    regQ,           \* h.register
    unregQ,         \* h.unregister
    sendToQ,        \* h.sendTo
    bcastQ,         \* h.broadcast
    clients,        \* h.clients: entries [key, client]
    cConnNil,       \* client.conn = nil, per client
    tClosed,        \* the transport of a client is closed
    tOut,           \* frames written to the transport of a client
    messagesSent, messagesReceived,
    cId,            \* client.id, per client object created (0: not yet)
    hOps,           \* producer calls made so far
    wLast,          \* what the worker did in its last step
    pLast,          \* what the last producer call returned
    hPanicked,      \* a goroutine of the hub panicked
    \* ---- the relay handlers of package signal ----
    rLog,           \* per relayed envelope: the frame received, the target,
                    \* the bytes handed to SendTo
    \* ---- Hub.Start called more than once ----
    gCtx,           \* h.ctx: the call of Start that set it last (0: nil)
    gDone,          \* per call of Start: the context it derived is done
    gWorker,        \* per call of Start: the goroutine of run it launched
    gWait,          \* per worker: the context its select waits on
    gWg,            \* h.wg
    gReq,           \* requests waiting in the queues
    gStop,          \* position of the call of Stop
    \* ---- the Client that joins its pumps (Close waits on a wait group) ----
    jClosed,        \* Client.closed
    jCtxDone,       \* Client.ctx is cancelled
    jChanClosed,    \* close(c.sendChan) has run
    jConnClosed,    \* c.conn.Close() has run
    jPeerGone,      \* the peer went away: reads and writes fail
    jWg,            \* Client.wg
    jRead,          \* position of the read pump
    jWrite,         \* position of the write pump
    jk,             \* position of each caller of Close
    jPanicked,      \* a goroutine panicked
    \* ---- the read pump of a Connection, the router and the handlers ----
    rpPc,           \* position of the read pump
    rpFrames,       \* frames the read pump has read
    rFrame,         \* the frame routed last
    rInvoked,       \* the handlers invoked for it
    rHret,          \* what the handler returned
    rRet,           \* what router.Handle returned
    rSent,          \* what became of the response
    rAfterErr,      \* the frame before it ended in a handler error
    \* ---- delivery: the hub worker inside client.Send ----
    dwPc,           \* position of the worker: at its select, or in WriteMessage
    dwTo,           \* the client whose transport the worker writes to (0: none)
    dwMsg,          \* the frame it writes
    dStalled,       \* per transport: the peer does not read, a write blocks
    \* ---- the configuration of the server ----
    cfgIn,          \* the config file, the environment and the flags given
    cfgOut,         \* the configuration loadConfig returned
    \* ---- the envelope codec ----
    eMsg,           \* the envelope given to Encode
    eEnc,           \* the bytes Encode returned
    eDec,           \* the envelope Decode returned
    \* ---- the hub with unbuffered channels and its sockets (package conic) ----
    lClients,       \* hub.clients: id -> socket (0: no entry)
    lNextId,        \* ids issued by xid.New so far
    lwPc,           \* the worker: at its select, in client.Write, in client.Error
    lwTo,           \* the socket whose channel the worker sends on (0: none)
    lPanicked,      \* a goroutine panicked
    sRead,          \* per socket: where its read goroutine is
    sReq,           \* per socket: the request its read goroutine submits
    sFrames,        \* per socket: text frames read
    sWrite,         \* per socket: where its write loop is
    sDone,          \* per socket: close(s.done) has run
    sCloseCh,       \* per socket: close(s.closeChannel) has run
    \* ---- webrtc.PeerConnection: ICE candidates ----
    iRemoteSet,     \* pc.RemoteDescription() is not nil
    iPending,       \* PeerConnection.pendingCandidates
    iApplied,       \* candidates given to pc.AddICECandidate, in order
    iNext,          \* candidates passed to AddICECandidate so far
    aPc,            \* per caller of AddICECandidate: its position
    aCand,          \* per caller: its candidate
    dPc,            \* the caller of SetRemoteDescription: its position
    dSnap,          \* the slice processPendingCandidates took
    \* ---- Hub.SendTo between its enqueue and its count ----
    pCounting       \* calls of SendTo that have enqueued and not yet counted

connVars == <<closed, cctxDone, sendChan, chanClosed, wsClosed, nCancel,
              nChanClose, nWsClose, written, closeFrames, accepted, nextMsg,
              sPc, sMsg, sCtx, sAfter, lastRes, lastAfter, lastFull, lastCtx,
              nDrained, kPc, kRes, kFirst, closeReturned, nAtClose, wPc, wN,
              startCtxDone, panicked>>

hubVars == <<hStarted, hCtxDone, workerUp, stopPc, stopSnapshot, chansClosed,
             regQ, unregQ, sendToQ, bcastQ, clients, cConnNil, tClosed, tOut,
             messagesSent, messagesReceived, cId, hOps, wLast, pLast,
             hPanicked>>

relayVars == <<rLog>>

startVars == <<gCtx, gDone, gWorker, gWait, gWg, gReq, gStop>>

joinVars == <<jClosed, jCtxDone, jChanClosed, jConnClosed, jPeerGone, jWg,
              jRead, jWrite, jk, jPanicked>>

\* The variables of the parts of the program modelled on their own.
sessVars == <<rpPc, rpFrames, rFrame, rInvoked, rHret, rRet, rSent, rAfterErr>>

deliverVars == <<dwPc, dwTo, dwMsg, dStalled>>

configVars == <<cfgIn, cfgOut>>

codecVars == <<eMsg, eEnc, eDec>>

legacyVars == <<lClients, lNextId, lwPc, lwTo, lPanicked, sRead, sReq, sFrames,
                sWrite, sDone, sCloseCh>>

iceVars == <<iRemoteSet, iPending, iApplied, iNext, aPc, aCand, dPc, dSnap>>

statVars == <<pCounting>>

extVars == <<startVars, joinVars, sessVars, deliverVars, configVars,
             codecVars, legacyVars, iceVars, statVars>>

vars == <<connVars, hubVars, relayVars, extVars>>

\* What an action of the Connection, and of the hub, leaves alone.
notConn == <<hubVars, relayVars, extVars>>
notHub == <<connVars, relayVars, extVars>>
notHubRelay == <<connVars, extVars>>
notStart == <<connVars, hubVars, relayVars, joinVars, sessVars, deliverVars,
              configVars, codecVars,
    legacyVars, iceVars, statVars>>
notJoin == <<connVars, hubVars, relayVars, startVars, sessVars, deliverVars,
             configVars, codecVars,
    legacyVars, iceVars, statVars>>
notSess == <<relayVars, startVars, joinVars, deliverVars, configVars,
             codecVars,
    legacyVars, iceVars, statVars>>
notDeliver == <<relayVars, startVars, joinVars, sessVars, configVars,
                codecVars,
    legacyVars, iceVars, statVars>>
notConfig == <<connVars, hubVars, relayVars, startVars, joinVars, sessVars,
               deliverVars, codecVars,
    legacyVars, iceVars, statVars>>
notLegacy == <<connVars, hubVars, relayVars, startVars, joinVars, sessVars,
               deliverVars, configVars, codecVars, iceVars, statVars>>
notIce == <<connVars, hubVars, relayVars, startVars, joinVars, sessVars,
            deliverVars, configVars, codecVars, legacyVars, statVars>>
notStat == <<connVars, relayVars, startVars, joinVars, sessVars, deliverVars,
             configVars, codecVars, legacyVars, iceVars>>
notCodec == <<connVars, hubVars, relayVars, startVars, joinVars, sessVars,
              deliverVars, configVars,
    legacyVars, iceVars, statVars>>

----------------------------------------------------------------------------
(* Bounds of the model *)

\* Capacity of Connection.sendChan in the model (256 in NewConnection).
SendCap == 2
\* Number of calls of Send in one run.
MaxMsgs == 3
\* Concurrent callers of Connection.Send.
NSenders == 2
\* Concurrent callers of Connection.Close.
NClosers == 2

\* Capacity of h.register and h.unregister in the model (100 in New).
RegCap == 2
\* Capacity of h.broadcast and h.sendTo in the model (1000 in New).
MsgCap == 2
\* Client objects (domain.client) created in one run.
NClients == 2
\* Client ids in use.
NIds == 2
\* Producer calls (Register, Unregister, SendTo, Broadcast) in one run.
MaxOps == 3

\* Envelopes a sender's read pump relays in one run.
MaxRelay == 1

\* Frames the read pump of a session decodes in one run.
MaxFrames == 2

\* Calls of Hub.Start in one run.
MaxStarts == 2
\* Requests that can wait in the hub's queues in the model of Start.
MaxReq == 2

Senders == 1..NSenders
Closers == 1..NClosers

\* The frame a receive from the closed, empty queue yields (nil []byte).
NilFrame == 0

IsPrefix(s, t) == Len(s) <= Len(t) /\ SubSeq(t, 1, Len(s)) = s

----------------------------------------------------------------------------
(* websocket.Connection *)

NewConnection ==
    /\ closed = FALSE
    /\ cctxDone = FALSE
    /\ sendChan = <<>>
    /\ chanClosed = FALSE
    /\ wsClosed = FALSE
    /\ nCancel = 0
    /\ nChanClose = 0
    /\ nWsClose = 0
    /\ written = <<>>
    /\ closeFrames = 0
    /\ accepted = <<>>
    /\ nextMsg = 1
    /\ sPc = [s \in Senders |-> "idle"]
    /\ sMsg = [s \in Senders |-> NilFrame]
    /\ sCtx = [s \in Senders |-> FALSE]
    /\ sAfter = [s \in Senders |-> FALSE]
    /\ lastRes = "none"
    /\ lastAfter = FALSE
    /\ lastFull = FALSE
    /\ lastCtx = FALSE
    /\ nDrained = 0
    /\ kPc = [k \in Closers |-> "idle"]
    /\ kRes = [k \in Closers |-> "none"]
    /\ kFirst = [k \in Closers |-> FALSE]
    /\ closeReturned = FALSE
    /\ nAtClose = 0
    /\ wPc = "new"
    /\ wN = 0
    /\ startCtxDone = FALSE
    /\ panicked = FALSE

\* The callers are interchangeable: a new call takes the lowest free slot.
FreeSender(s) == sPc[s] = "idle" /\ \A q \in Senders : q < s => sPc[q] # "idle"
FreeCloser(k) == kPc[k] = "idle" /\ \A q \in Closers : q < k => kPc[q] # "idle"

\* Send without the test of the closed flag.
SendCheckMissing(s) ==
    /\ ~panicked
    /\ UNCHANGED notConn
    /\ FreeSender(s)
    /\ nextMsg <= MaxMsgs
    /\ nextMsg' = nextMsg + 1
    /\ sMsg' = [sMsg EXCEPT ![s] = nextMsg]
    /\ sAfter' = [sAfter EXCEPT ![s] = closeReturned]
    /\ \E ctxDone \in BOOLEAN : sCtx' = [sCtx EXCEPT ![s] = ctxDone]
    /\ sPc' = [sPc EXCEPT ![s] = "select"]
    /\ UNCHANGED <<closed, cctxDone, sendChan, chanClosed, wsClosed, nCancel,
                   nChanClose, nWsClose, written, closeFrames, accepted, lastRes,
                   lastAfter, lastFull, lastCtx, nDrained, kPc, kRes, kFirst,
                   closeReturned, nAtClose, wPc, wN, startCtxDone, panicked>>

\* Send, lines 63-68: a caller submits a fresh frame; the closed flag is read
\* under the read lock.  ctxDone is the state in which the select will find
\* the caller's context.
SendCheck(s) ==
    /\ ~panicked
    /\ UNCHANGED notConn
    /\ FreeSender(s)
    /\ nextMsg <= MaxMsgs
    /\ nextMsg' = nextMsg + 1
    /\ IF closed
          THEN /\ lastRes' = "closed"
               /\ lastAfter' = closeReturned
               /\ lastFull' = FALSE
               /\ lastCtx' = FALSE
               /\ UNCHANGED <<sPc, sMsg, sCtx, sAfter>>
          ELSE /\ sMsg' = [sMsg EXCEPT ![s] = nextMsg]
               /\ sAfter' = [sAfter EXCEPT ![s] = closeReturned]
               /\ \E ctxDone \in BOOLEAN :
                    sCtx' = [sCtx EXCEPT ![s] = ctxDone]
               /\ sPc' = [sPc EXCEPT ![s] = "select"]
               /\ UNCHANGED <<lastRes, lastAfter, lastFull, lastCtx>>
    /\ UNCHANGED <<closed, cctxDone, sendChan, chanClosed, wsClosed, nCancel,
                   nChanClose, nWsClose, written, closeFrames, accepted,
                   nDrained, kPc, kRes, kFirst, closeReturned, nAtClose, wPc, wN,
                   startCtxDone, panicked>>

\* The select of Send without the capacity of the queue: the enqueue
\* always proceeds on an open queue.
SendReadyUnbounded(ctxDone) ==
    (IF ctxDone THEN {"ctxErr"} ELSE {})
    \cup (IF cctxDone THEN {"connCtxDone"} ELSE {})
    \cup (IF chanClosed THEN {"panic"} ELSE {"nil"})

\* The cases of the select of Send (lines 70-79) that can proceed; the
\* default case runs only when none can.  A send on a closed channel
\* proceeds by panicking.
SendReady(ctxDone) ==
    LET r == (IF ctxDone THEN {"ctxErr"} ELSE {})
             \cup (IF cctxDone THEN {"connCtxDone"} ELSE {})
             \cup (IF chanClosed THEN {"panic"} ELSE {})
             \cup (IF ~chanClosed /\ Len(sendChan) < SendCap
                      THEN {"nil"} ELSE {})
    IN  IF r = {} THEN {"full"} ELSE r

\* Send, lines 70-79: the select; the call returns.
SendSelect(s) ==
    /\ ~panicked
    /\ UNCHANGED notConn
    /\ sPc[s] = "select"
    /\ \E r \in SendReady(sCtx[s]) :
         /\ lastRes' = r
         /\ sendChan' = IF r = "nil" THEN Append(sendChan, sMsg[s])
                                     ELSE sendChan
         /\ accepted' = IF r = "nil" THEN Append(accepted, sMsg[s])
                                     ELSE accepted
         /\ panicked' = (r = "panic")
    /\ lastAfter' = sAfter[s]
    /\ lastFull' = (~closed /\ Len(sendChan) >= SendCap)
    /\ lastCtx' = sCtx[s]
    /\ sPc' = [sPc EXCEPT ![s] = "idle"]
    /\ sMsg' = [sMsg EXCEPT ![s] = NilFrame]
    /\ sCtx' = [sCtx EXCEPT ![s] = FALSE]
    /\ sAfter' = [sAfter EXCEPT ![s] = FALSE]
    /\ UNCHANGED <<closed, cctxDone, chanClosed, wsClosed, nCancel, nChanClose,
                   nWsClose, written, closeFrames, nextMsg, nDrained, kPc, kRes,
                   kFirst, closeReturned, nAtClose, wPc, wN, startCtxDone>>

\* Close without the closed flag: every call runs the teardown.
CloseLockNoFlag(k) ==
    /\ ~panicked
    /\ UNCHANGED notConn
    /\ FreeCloser(k)
    /\ closed' = TRUE
    /\ nAtClose' = IF closed THEN nAtClose ELSE Len(accepted)
    /\ kFirst' = [kFirst EXCEPT ![k] = ~closed]
    /\ kPc' = [kPc EXCEPT ![k] = "locked"]
    /\ UNCHANGED <<cctxDone, sendChan, chanClosed, wsClosed, nCancel, nChanClose,
                   nWsClose, written, closeFrames, accepted, nextMsg, sPc, sMsg,
                   sCtx, sAfter, lastRes, lastAfter, lastFull, lastCtx, nDrained,
                   kRes, closeReturned, wPc, wN, startCtxDone, panicked>>

\* Close, lines 83-89: test and set of the closed flag under the mutex.
CloseLock(k) ==
    /\ ~panicked
    /\ UNCHANGED notConn
    /\ FreeCloser(k)
    /\ IF closed
          THEN /\ kPc' = [kPc EXCEPT ![k] = "returned"]
               /\ kRes' = [kRes EXCEPT ![k] = "nil"]
               /\ closeReturned' = TRUE
               /\ UNCHANGED <<closed, kFirst, nAtClose>>
          ELSE /\ closed' = TRUE
               /\ nAtClose' = Len(accepted)
               /\ kFirst' = [kFirst EXCEPT ![k] = TRUE]
               /\ kPc' = [kPc EXCEPT ![k] = "locked"]
               /\ UNCHANGED <<kRes, closeReturned>>
    /\ UNCHANGED <<cctxDone, sendChan, chanClosed, wsClosed, nCancel, nChanClose,
                   nWsClose, written, closeFrames, accepted, nextMsg, sPc, sMsg,
                   sCtx, sAfter, lastRes, lastAfter, lastFull, lastCtx, nDrained,
                   wPc, wN, startCtxDone, panicked>>

\* Close, line 93: c.cancel().
CloseCancel(k) ==
    /\ ~panicked
    /\ UNCHANGED notConn
    /\ kPc[k] = "locked"
    /\ cctxDone' = TRUE
    /\ nCancel' = nCancel + 1
    /\ kPc' = [kPc EXCEPT ![k] = "cancelled"]
    /\ UNCHANGED <<closed, sendChan, chanClosed, wsClosed, nChanClose, nWsClose,
                   written, closeFrames, accepted, nextMsg, sPc, sMsg, sCtx,
                   sAfter, lastRes, lastAfter, lastFull, lastCtx, nDrained, kRes,
                   kFirst, closeReturned, nAtClose, wPc, wN, startCtxDone,
                   panicked>>

\* Close, line 94: close(c.sendChan); closing a closed channel panics.
CloseChan(k) ==
    /\ ~panicked
    /\ UNCHANGED notConn
    /\ kPc[k] = "cancelled"
    /\ IF chanClosed
          THEN /\ panicked' = TRUE
               /\ UNCHANGED <<chanClosed, nChanClose>>
          ELSE /\ chanClosed' = TRUE
               /\ nChanClose' = nChanClose + 1
               /\ UNCHANGED panicked
    /\ kPc' = [kPc EXCEPT ![k] = "chanClosed"]
    /\ UNCHANGED <<closed, cctxDone, sendChan, wsClosed, nCancel, nWsClose,
                   written, closeFrames, accepted, nextMsg, sPc, sMsg, sCtx,
                   sAfter, lastRes, lastAfter, lastFull, lastCtx, nDrained, kRes,
                   kFirst, closeReturned, nAtClose, wPc, wN, startCtxDone>>

\* Close, lines 96-101: c.conn.Close() and the return of its result.
CloseConn(k) ==
    /\ ~panicked
    /\ UNCHANGED notConn
    /\ kPc[k] = "chanClosed"
    /\ wsClosed' = TRUE
    /\ nWsClose' = nWsClose + 1
    /\ \E r \in {"nil", "err"} : kRes' = [kRes EXCEPT ![k] = r]
    /\ kPc' = [kPc EXCEPT ![k] = "returned"]
    /\ closeReturned' = TRUE
    /\ UNCHANGED <<closed, cctxDone, sendChan, chanClosed, nCancel, nChanClose,
                   written, closeFrames, accepted, nextMsg, sPc, sMsg, sCtx,
                   sAfter, lastRes, lastAfter, lastFull, lastCtx, nDrained,
                   kFirst, nAtClose, wPc, wN, startCtxDone, panicked>>

\* Start, lines 108-120: the pumps are launched.
ConnStart ==
    /\ ~panicked
    /\ UNCHANGED notConn
    /\ wPc = "new"
    /\ wPc' = "select"
    /\ UNCHANGED <<closed, cctxDone, sendChan, chanClosed, wsClosed, nCancel,
                   nChanClose, nWsClose, written, closeFrames, accepted, nextMsg,
                   sPc, sMsg, sCtx, sAfter, lastRes, lastAfter, lastFull,
                   lastCtx, nDrained, kPc, kRes, kFirst, closeReturned, nAtClose,
                   wN, startCtxDone, panicked>>

\* The context passed to Start is cancelled by its owner.
StartCtxCancel ==
    /\ ~panicked
    /\ UNCHANGED notConn
    /\ ~startCtxDone
    /\ startCtxDone' = TRUE
    /\ UNCHANGED <<closed, cctxDone, sendChan, chanClosed, wsClosed, nCancel,
                   nChanClose, nWsClose, written, closeFrames, accepted, nextMsg,
                   sPc, sMsg, sCtx, sAfter, lastRes, lastAfter, lastFull,
                   lastCtx, nDrained, kPc, kRes, kFirst, closeReturned, nAtClose,
                   wPc, wN, panicked>>

\* The transport is closed from outside the Connection: by the peer, or by
\* the hub through the client object that wraps the same ws.Conn
\* (domain/client.go, lines 39-51).
ConnTransportClose ==
    /\ ~panicked
    /\ UNCHANGED notConn
    /\ ~wsClosed
    /\ wsClosed' = TRUE
    /\ UNCHANGED <<closed, cctxDone, sendChan, chanClosed, nCancel, nChanClose,
                   nWsClose, written, closeFrames, accepted, nextMsg, sPc, sMsg,
                   sCtx, sAfter, lastRes, lastAfter, lastFull, lastCtx, nDrained,
                   kPc, kRes, kFirst, closeReturned, nAtClose, wPc, wN,
                   startCtxDone, panicked>>

\* conn.WriteMessage: fails on a closed transport, and may fail on an open
\* one (network error).
WriteOutcomes == IF wsClosed THEN {FALSE} ELSE {TRUE, FALSE}

\* The write pump that watches the context of the Connection only.
WriteCtxDoneOwnOnly ==
    /\ ~panicked
    /\ UNCHANGED notConn
    /\ wPc = "select"
    /\ cctxDone
    /\ wPc' = "exited"
    /\ UNCHANGED <<closed, cctxDone, sendChan, chanClosed, wsClosed, nCancel,
                   nChanClose, nWsClose, written, closeFrames, accepted, nextMsg,
                   sPc, sMsg, sCtx, sAfter, lastRes, lastAfter, lastFull,
                   lastCtx, nDrained, kPc, kRes, kFirst, closeReturned, nAtClose,
                   wN, startCtxDone, panicked>>

\* writePump, lines 200-203: one of the contexts is done.
WriteCtxDone ==
    /\ ~panicked
    /\ UNCHANGED notConn
    /\ wPc = "select"
    /\ cctxDone \/ startCtxDone
    /\ wPc' = "exited"
    /\ UNCHANGED <<closed, cctxDone, sendChan, chanClosed, wsClosed, nCancel,
                   nChanClose, nWsClose, written, closeFrames, accepted, nextMsg,
                   sPc, sMsg, sCtx, sAfter, lastRes, lastAfter, lastFull,
                   lastCtx, nDrained, kPc, kRes, kFirst, closeReturned, nAtClose,
                   wN, startCtxDone, panicked>>

\* The drain loop writing the frame of the outer receive again.
DrainFrameStale(first) == first

\* The frame the drain loop writes: msg, the frame it received (line 220-221).
DrainFrame(first) == Head(sendChan)

\* writePump, lines 204-217: a frame is received and written, and the
\* length of the queue is read for the drain loop.
WriteRecv ==
    /\ ~panicked
    /\ UNCHANGED notConn
    /\ wPc = "select"
    /\ Len(sendChan) > 0
    /\ \E ok \in WriteOutcomes :
         IF ok
            THEN /\ written' = Append(written, Head(sendChan))
                 /\ wN' = Len(sendChan) - 1
                 /\ wPc' = IF Len(sendChan) > 1 THEN "drain" ELSE "select"
            ELSE /\ wPc' = "exited"
                 /\ UNCHANGED <<written, wN>>
    /\ sendChan' = Tail(sendChan)
    /\ UNCHANGED <<closed, cctxDone, chanClosed, wsClosed, nCancel, nChanClose,
                   nWsClose, closeFrames, accepted, nextMsg, sPc, sMsg, sCtx,
                   sAfter, lastRes, lastAfter, lastFull, lastCtx, nDrained, kPc,
                   kRes, kFirst, closeReturned, nAtClose, startCtxDone, panicked>>

\* writePump, lines 207-210: the queue is closed and empty; a close frame is
\* written (its error is ignored) and the pump returns.
WriteClosed ==
    /\ ~panicked
    /\ UNCHANGED notConn
    /\ wPc = "select"
    /\ Len(sendChan) = 0
    /\ chanClosed
    /\ \E ok \in WriteOutcomes :
         closeFrames' = IF ok THEN closeFrames + 1 ELSE closeFrames
    /\ wPc' = "exited"
    /\ UNCHANGED <<closed, cctxDone, sendChan, chanClosed, wsClosed, nCancel,
                   nChanClose, nWsClose, written, accepted, nextMsg, sPc, sMsg,
                   sCtx, sAfter, lastRes, lastAfter, lastFull, lastCtx, nDrained,
                   kPc, kRes, kFirst, closeReturned, nAtClose, wN, startCtxDone,
                   panicked>>

\* writePump, lines 218-227: one round of the drain loop.  The receive does
\* not test ok: on a closed, empty queue it yields the nil frame; on an
\* open, empty queue the default case runs.
WriteDrain ==
    /\ ~panicked
    /\ UNCHANGED notConn
    /\ wPc = "drain"
    /\ wN > 0
    /\ IF Len(sendChan) > 0 \/ chanClosed
          THEN \E ok \in WriteOutcomes :
                 /\ IF ok
                       THEN /\ written' = Append(written,
                                   IF Len(sendChan) > 0
                                      THEN DrainFrame(written[Len(written)])
                                      ELSE NilFrame)
                            /\ nDrained' = nDrained + 1
                            /\ wN' = wN - 1
                            /\ wPc' = IF wN = 1 THEN "select" ELSE "drain"
                       ELSE /\ wPc' = "exited"
                            /\ UNCHANGED <<written, wN, nDrained>>
                 /\ sendChan' = IF Len(sendChan) > 0 THEN Tail(sendChan)
                                                     ELSE sendChan
          ELSE /\ wN' = wN - 1
               /\ wPc' = IF wN = 1 THEN "select" ELSE "drain"
               /\ UNCHANGED <<written, sendChan, nDrained>>
    /\ UNCHANGED <<closed, cctxDone, chanClosed, wsClosed, nCancel, nChanClose,
                   nWsClose, closeFrames, accepted, nextMsg, sPc, sMsg, sCtx,
                   sAfter, lastRes, lastAfter, lastFull, lastCtx, kPc, kRes,
                   kFirst, closeReturned, nAtClose, startCtxDone, panicked>>

\* writePump, lines 229-234: the keepalive tick; the pump returns when the
\* ping cannot be written.
WritePing ==
    /\ ~panicked
    /\ UNCHANGED notConn
    /\ wPc = "select"
    /\ \E ok \in WriteOutcomes :
         wPc' = IF ok THEN "select" ELSE "exited"
    /\ UNCHANGED <<closed, cctxDone, sendChan, chanClosed, wsClosed, nCancel,
                   nChanClose, nWsClose, written, closeFrames, accepted, nextMsg,
                   sPc, sMsg, sCtx, sAfter, lastRes, lastAfter, lastFull,
                   lastCtx, nDrained, kPc, kRes, kFirst, closeReturned, nAtClose,
                   wN, startCtxDone, panicked>>

NextConn ==
    \/ \E s \in Senders : SendCheck(s)
    \/ \E s \in Senders : SendSelect(s)
    \/ \E k \in Closers : CloseLock(k)
    \/ \E k \in Closers : CloseCancel(k)
    \/ \E k \in Closers : CloseChan(k)
    \/ \E k \in Closers : CloseConn(k)
    \/ ConnStart
    \/ StartCtxCancel
    \/ ConnTransportClose
    \/ WriteCtxDone
    \/ WriteRecv
    \/ WriteClosed
    \/ WriteDrain
    \/ WritePing

----------------------------------------------------------------------------
(* hub.Hub and domain.client *)

Clients == 1..NClients
Ids == 1..NIds

\* client.ID(): the id the client object was created with.
IdOf(c) == cId[c]

\* The client objects created so far; the next one is the lowest unused.
Created == {c \in Clients : cId[c] # 0}

\* The transport (ws.Conn) the client object wraps: one per client.
ConnOf(c) == c

\* hub.New: the hub after construction.
New ==
    /\ hStarted = FALSE
    /\ hCtxDone = FALSE
    /\ workerUp = FALSE
    /\ stopPc = "idle"
    /\ stopSnapshot = {}
    /\ chansClosed = FALSE
    /\ regQ = <<>>
    /\ unregQ = <<>>
    /\ sendToQ = <<>>
    /\ bcastQ = <<>>
    /\ clients = {}
    /\ cConnNil = [c \in Clients |-> FALSE]
    /\ tClosed = [c \in Clients |-> FALSE]
    /\ tOut = [c \in Clients |-> <<>>]
    /\ messagesSent = 0
    /\ messagesReceived = 0
    /\ cId = [c \in Clients |-> 0]
    /\ hOps = 0
    /\ wLast = "none"
    /\ pLast = "none"
    /\ hPanicked = FALSE

\* sync.Map as the hub uses it.
Load(key) == {e \in clients : e.key = key}
Has(key) == Load(key) # {}
Store(key, c) == (clients \ Load(key)) \cup {[key |-> key, client |-> c]}
Registered == {e.client : e \in clients}

\* getClientCount: the entries a Range visits.
getClientCount == Cardinality(clients)

\* GetStats.ConnectedClients.
ConnectedClients == getClientCount

\* Start: the context is derived and the worker launched.
Start ==
    /\ ~hPanicked
    /\ UNCHANGED notHub
    /\ ~hStarted
    /\ hStarted' = TRUE
    /\ workerUp' = TRUE
    /\ UNCHANGED <<hCtxDone, stopPc, stopSnapshot, chansClosed, regQ, unregQ,
                   sendToQ, bcastQ, clients, cConnNil, tClosed, tOut,
                   messagesSent, messagesReceived, cId, hOps, wLast, pLast,
                   hPanicked>>

\* The context passed to Start is cancelled by its owner.
ParentCancel ==
    /\ ~hPanicked
    /\ UNCHANGED notHub
    /\ hStarted
    /\ ~hCtxDone
    /\ hCtxDone' = TRUE
    /\ UNCHANGED <<hStarted, workerUp, stopPc, stopSnapshot, chansClosed, regQ,
                   unregQ, sendToQ, bcastQ, clients, cConnNil, tClosed, tOut,
                   messagesSent, messagesReceived, cId, hOps, wLast, pLast,
                   hPanicked>>

\* The callers of SendTo and Broadcast submit a message of their own: the
\* number of the call.
FreshMsg == hOps + 1

\* The select of a producer: the cases that can proceed; the default case
\* runs only when none can.  A send on a closed channel proceeds by
\* panicking.
ProducerReady(q, cap) ==
    LET r == (IF hCtxDone THEN {"cancelled"} ELSE {})
             \cup (IF chansClosed THEN {"panic"} ELSE {})
             \cup (IF ~chansClosed /\ Len(q) < cap THEN {"nil"} ELSE {})
    IN  IF r = {} THEN {"full"} ELSE r

\* Register that stores the client in the registry itself, on the caller's
\* goroutine, instead of handing it to the worker.
RegisterStoresDirectly(c, id) ==
    /\ ~hPanicked
    /\ hStarted
    /\ hOps < MaxOps
    /\ hOps' = hOps + 1
    /\ c \notin Created
    /\ \A q \in Clients : q < c => q \in Created
    /\ cId' = [cId EXCEPT ![c] = id]
    /\ pLast' = "nil"
    /\ clients' = Store(id, c)
    /\ UNCHANGED <<hStarted, hCtxDone, workerUp, stopPc, stopSnapshot,
                   chansClosed, regQ, unregQ, sendToQ, bcastQ, cConnNil, tClosed,
                   tOut, messagesSent, messagesReceived, wLast, hPanicked>>

\* domain.NewClient (domain/client.go, lines 15-20) and Register, lines
\* 79-88: the register handler creates a client object with the requested
\* id and submits it.
Register(c, id) ==
    /\ ~hPanicked
    /\ hStarted
    /\ hOps < MaxOps
    /\ hOps' = hOps + 1
    /\ c \notin Created
    /\ \A q \in Clients : q < c => q \in Created
    /\ cId' = [cId EXCEPT ![c] = id]
    /\ \E r \in ProducerReady(regQ, RegCap) :
         /\ pLast' = r
         /\ regQ' = IF r = "nil" THEN Append(regQ, c) ELSE regQ
         /\ hPanicked' = (r = "panic")
    /\ UNCHANGED <<hStarted, hCtxDone, workerUp, stopPc, stopSnapshot,
                   chansClosed, unregQ, sendToQ, bcastQ, clients, cConnNil,
                   tClosed, tOut, messagesSent, messagesReceived, wLast>>

\* Unregister, lines 90-99.
Unregister(id) ==
    /\ ~hPanicked
    /\ UNCHANGED notHub
    /\ hStarted
    /\ hOps < MaxOps
    /\ hOps' = hOps + 1
    /\ \E r \in ProducerReady(unregQ, RegCap) :
         /\ pLast' = r
         /\ unregQ' = IF r = "nil" THEN Append(unregQ, id) ELSE unregQ
         /\ hPanicked' = (r = "panic")
    /\ UNCHANGED <<hStarted, hCtxDone, workerUp, stopPc, stopSnapshot,
                   chansClosed, regQ, sendToQ, bcastQ, clients, cConnNil,
                   tClosed, tOut, messagesSent, messagesReceived, cId, wLast>>

\* Broadcast, lines 101-111.
Broadcast(m) ==
    /\ ~hPanicked
    /\ UNCHANGED notHub
    /\ hStarted
    /\ hOps < MaxOps
    /\ hOps' = hOps + 1
    /\ \E r \in ProducerReady(bcastQ, MsgCap) :
         /\ pLast' = r
         /\ bcastQ' = IF r = "nil" THEN Append(bcastQ, m) ELSE bcastQ
         /\ messagesReceived' = IF r = "nil" THEN messagesReceived + 1
                                             ELSE messagesReceived
         /\ hPanicked' = (r = "panic")
    /\ UNCHANGED <<hStarted, hCtxDone, workerUp, stopPc, stopSnapshot,
                   chansClosed, regQ, unregQ, sendToQ, clients, cConnNil,
                   tClosed, tOut, messagesSent, cId, wLast>>

\* SendTo that submits its request at the head of the queue.
SendToAtHead(id, m) ==
    /\ ~hPanicked
    /\ hStarted
    /\ hOps < MaxOps
    /\ hOps' = hOps + 1
    /\ \E r \in ProducerReady(sendToQ, MsgCap) :
         /\ pLast' = r
         /\ sendToQ' = IF r = "nil"
                          THEN <<[clientID |-> id, message |-> m]>> \o sendToQ
                          ELSE sendToQ
         /\ messagesReceived' = IF r = "nil" THEN messagesReceived + 1
                                             ELSE messagesReceived
         /\ hPanicked' = (r = "panic")
    /\ UNCHANGED <<hStarted, hCtxDone, workerUp, stopPc, stopSnapshot,
                   chansClosed, regQ, unregQ, bcastQ, clients, cConnNil, tClosed,
                   tOut, messagesSent, cId, wLast>>

\* SendTo, lines 113-123.  (Register and SendTo are also called by the
\* handlers of the read pump, in a step that goes on after the call: what
\* they leave alone outside the hub is said where they are used.)
SendTo(id, m) ==
    /\ ~hPanicked
    /\ hStarted
    /\ hOps < MaxOps
    /\ hOps' = hOps + 1
    /\ \E r \in ProducerReady(sendToQ, MsgCap) :
         /\ pLast' = r
         /\ sendToQ' = IF r = "nil"
                          THEN Append(sendToQ, [clientID |-> id, message |-> m])
                          ELSE sendToQ
         /\ messagesReceived' = IF r = "nil" THEN messagesReceived + 1
                                             ELSE messagesReceived
         /\ hPanicked' = (r = "panic")
    /\ UNCHANGED <<hStarted, hCtxDone, workerUp, stopPc, stopSnapshot,
                   chansClosed, regQ, unregQ, bcastQ, clients, cConnNil, tClosed,
                   tOut, messagesSent, cId, wLast>>

\* run, lines 160-161: the worker sees its context done and returns.
WorkerCtxDone ==
    /\ ~hPanicked
    /\ UNCHANGED notHub
    /\ workerUp
    /\ hCtxDone
    /\ workerUp' = FALSE
    /\ UNCHANGED <<hStarted, hCtxDone, stopPc, stopSnapshot, chansClosed, regQ,
                   unregQ, sendToQ, bcastQ, clients, cConnNil, tClosed, tOut,
                   messagesSent, messagesReceived, cId, hOps, wLast, pLast,
                   hPanicked>>

\* The registry keyed by the client object instead of its id.
handleRegisterByObject(c) ==
    IF Has(NIds + c)
       THEN /\ wLast' = "dupRegister"
            /\ UNCHANGED clients
       ELSE /\ clients' = Store(NIds + c, c)
            /\ wLast' = "registered"

\* The registration that stores without looking the id up first.
handleRegisterOverwrite(c) ==
    /\ clients' = Store(IdOf(c), c)
    /\ wLast' = IF Has(IdOf(c)) THEN "dupRegister" ELSE "registered"

\* handleRegister, lines 178-194.
handleRegister(c) ==
    IF Has(IdOf(c))
       THEN /\ wLast' = "dupRegister"
            /\ UNCHANGED clients
       ELSE /\ clients' = Store(IdOf(c), c)
            /\ wLast' = "registered"

\* run, lines 163-164.
WorkerRegister ==
    /\ ~hPanicked
    /\ UNCHANGED notHub
    /\ workerUp
    /\ regQ # <<>>
    /\ regQ' = Tail(regQ)
    /\ handleRegister(Head(regQ))
    /\ UNCHANGED <<hStarted, hCtxDone, workerUp, stopPc, stopSnapshot,
                   chansClosed, unregQ, sendToQ, bcastQ, cConnNil, tClosed, tOut,
                   messagesSent, messagesReceived, cId, hOps, pLast, hPanicked>>

\* client.Close (domain/client.go, lines 39-51) on each client of S: a client
\* whose conn is set closes its transport; conn.Close fails on a transport
\* that is closed already, and conn is set to nil when it succeeds.
ClosedAfter(S) ==
    [t \in Clients |->
        tClosed[t] \/ \E c \in S : ConnOf(c) = t /\ ~cConnNil[c]]
NilAfter(S) ==
    [c \in Clients |->
        cConnNil[c] \/ (c \in S /\ ~tClosed[ConnOf(c)])]

\* handleUnregister, lines 196-208.
handleUnregister(id) ==
    IF Has(id)
       THEN /\ clients' = clients \ Load(id)
            /\ tClosed' = ClosedAfter({e.client : e \in Load(id)})
            /\ cConnNil' = NilAfter({e.client : e \in Load(id)})
            /\ wLast' = "unregistered"
       ELSE /\ wLast' = "unregAbsent"
            /\ UNCHANGED <<clients, tClosed, cConnNil>>

\* run, lines 166-167.
WorkerUnregister ==
    /\ ~hPanicked
    /\ UNCHANGED notHub
    /\ workerUp
    /\ unregQ # <<>>
    /\ unregQ' = Tail(unregQ)
    /\ handleUnregister(Head(unregQ))
    /\ UNCHANGED <<hStarted, hCtxDone, workerUp, stopPc, stopSnapshot,
                   chansClosed, regQ, sendToQ, bcastQ, tOut, messagesSent,
                   messagesReceived, cId, hOps, pLast, hPanicked>>

\* client.Send (domain/client.go, lines 26-37): the clients of S on which a
\* write can succeed; a write on an open transport may still fail.
Writable(S) == {c \in S : ~cConnNil[c] /\ ~tClosed[ConnOf(c)]}

\* The broadcast that reaches every client created, registered or not.
handleBroadcastAllCreated(m) ==
    \E ok \in SUBSET Writable(Created) :
        /\ tOut' = [t \in Clients |->
                      IF \E c \in ok : ConnOf(c) = t THEN Append(tOut[t], m)
                                                     ELSE tOut[t]]
        /\ messagesSent' = messagesSent + Cardinality(ok)
        /\ wLast' = "broadcast"

\* The broadcast that sends the frame to every client twice.
handleBroadcastTwice(m) ==
    \E ok \in SUBSET Writable(Registered) :
        /\ tOut' = [t \in Clients |->
                      IF \E c \in ok : ConnOf(c) = t
                         THEN Append(Append(tOut[t], m), m)
                         ELSE tOut[t]]
        /\ messagesSent' = messagesSent + 2 * Cardinality(ok)
        /\ wLast' = "broadcast"

\* handleBroadcast, lines 210-237: one Send per registered client; ok are
\* the clients whose write succeeded.
handleBroadcast(m) ==
    \E ok \in SUBSET Writable(Registered) :
        /\ tOut' = [t \in Clients |->
                      IF \E c \in ok : ConnOf(c) = t THEN Append(tOut[t], m)
                                                     ELSE tOut[t]]
        /\ messagesSent' = messagesSent + Cardinality(ok)
        /\ wLast' = "broadcast"

\* run, lines 169-170.
WorkerBroadcast ==
    /\ ~hPanicked
    /\ UNCHANGED notHub
    /\ workerUp
    /\ bcastQ # <<>>
    /\ bcastQ' = Tail(bcastQ)
    /\ handleBroadcast(Head(bcastQ))
    /\ UNCHANGED <<hStarted, hCtxDone, workerUp, stopPc, stopSnapshot,
                   chansClosed, regQ, unregQ, sendToQ, clients, cConnNil,
                   tClosed, messagesReceived, cId, hOps, pLast, hPanicked>>

\* The delivery that does not test the result of the lookup: Send is called
\* on the nil client of a miss, and the worker panics.
handleSendToNoCheck(id, m) ==
    IF ~Has(id)
       THEN /\ hPanicked' = TRUE
            /\ wLast' = "notFound"
            /\ UNCHANGED <<tOut, messagesSent>>
       ELSE \E c \in {e.client : e \in Load(id)} :
            \E ok \in {w \in BOOLEAN : w => c \in Writable({c})} :
               /\ tOut' = IF ok THEN [tOut EXCEPT ![ConnOf(c)] = Append(@, m)]
                                ELSE tOut
               /\ messagesSent' = IF ok THEN messagesSent + 1 ELSE messagesSent
               /\ wLast' = IF ok THEN "sent" ELSE "sendFailed"
               /\ UNCHANGED hPanicked

\* handleSendTo, lines 239-258.
handleSendTo(id, m) ==
    IF ~Has(id)
       THEN /\ wLast' = "notFound"
            /\ UNCHANGED <<tOut, messagesSent, hPanicked>>
       ELSE \E c \in {e.client : e \in Load(id)} :
            \E ok \in {w \in BOOLEAN : w => c \in Writable({c})} :
               /\ tOut' = IF ok THEN [tOut EXCEPT ![ConnOf(c)] = Append(@, m)]
                                ELSE tOut
               /\ messagesSent' = IF ok THEN messagesSent + 1 ELSE messagesSent
               /\ wLast' = IF ok THEN "sent" ELSE "sendFailed"
               /\ UNCHANGED hPanicked

\* run, lines 172-173.
WorkerSendTo ==
    /\ ~hPanicked
    /\ UNCHANGED notHub
    /\ workerUp
    /\ sendToQ # <<>>
    /\ sendToQ' = Tail(sendToQ)
    /\ handleSendTo(Head(sendToQ).clientID, Head(sendToQ).message)
    /\ UNCHANGED <<hStarted, hCtxDone, workerUp, stopPc, stopSnapshot,
                   chansClosed, regQ, unregQ, bcastQ, clients, cConnNil, tClosed,
                   messagesReceived, cId, hOps, pLast>>

\* The peer goes away, or the Connection of the client closes the transport.
TransportClose(t) ==
    /\ ~hPanicked
    /\ UNCHANGED notHub
    /\ t \in {ConnOf(c) : c \in Registered}
    /\ ~tClosed[t]
    /\ tClosed' = [tClosed EXCEPT ![t] = TRUE]
    /\ UNCHANGED <<hStarted, hCtxDone, workerUp, stopPc, stopSnapshot,
                   chansClosed, regQ, unregQ, sendToQ, bcastQ, clients, cConnNil,
                   tOut, messagesSent, messagesReceived, cId, hOps, wLast, pLast,
                   hPanicked>>

\* Stop, lines 58-60: the context is cancelled; Stop waits for the worker.
StopCancel ==
    /\ ~hPanicked
    /\ UNCHANGED notHub
    /\ hStarted
    /\ stopPc = "idle"
    /\ hCtxDone' = TRUE
    /\ stopSnapshot' = Registered
    /\ stopPc' = "waiting"
    /\ UNCHANGED <<hStarted, workerUp, chansClosed, regQ, unregQ, sendToQ,
                   bcastQ, clients, cConnNil, tClosed, tOut, messagesSent,
                   messagesReceived, cId, hOps, wLast, pLast, hPanicked>>

\* Stop that leaves the clients alone.
StopRangeSkipped ==
    /\ ~hPanicked
    /\ UNCHANGED notHub
    /\ stopPc = "waiting"
    /\ ~workerUp
    /\ stopPc' = "ranged"
    /\ UNCHANGED <<hStarted, hCtxDone, workerUp, stopSnapshot, chansClosed, regQ,
                   unregQ, sendToQ, bcastQ, clients, cConnNil, tClosed, tOut,
                   messagesSent, messagesReceived, cId, hOps, wLast, pLast,
                   hPanicked>>

\* Stop, lines 61-68: the worker has returned; every client in the registry
\* is closed.
StopRange ==
    /\ ~hPanicked
    /\ UNCHANGED notHub
    /\ stopPc = "waiting"
    /\ ~workerUp
    /\ tClosed' = ClosedAfter(Registered)
    /\ cConnNil' = NilAfter(Registered)
    /\ stopPc' = "ranged"
    /\ UNCHANGED <<hStarted, hCtxDone, workerUp, stopSnapshot, chansClosed, regQ,
                   unregQ, sendToQ, bcastQ, clients, tOut, messagesSent,
                   messagesReceived, cId, hOps, wLast, pLast, hPanicked>>

\* Stop, lines 70-76: the channels are closed and Stop returns.
StopCloseChans ==
    /\ ~hPanicked
    /\ UNCHANGED notHub
    /\ stopPc = "ranged"
    /\ chansClosed' = TRUE
    /\ stopPc' = "returned"
    /\ UNCHANGED <<hStarted, hCtxDone, workerUp, stopSnapshot, regQ, unregQ,
                   sendToQ, bcastQ, clients, cConnNil, tClosed, tOut,
                   messagesSent, messagesReceived, cId, hOps, wLast, pLast,
                   hPanicked>>

NextHub ==
    \/ Start
    \/ ParentCancel
    \/ \E c \in Clients, id \in Ids : Register(c, id) /\ UNCHANGED notHub
    \/ \E id \in Ids : Unregister(id)
    \/ Broadcast(FreshMsg)
    \/ \E id \in Ids : SendTo(id, FreshMsg) /\ UNCHANGED notHub
    \/ WorkerCtxDone
    \/ WorkerRegister
    \/ WorkerUnregister
    \/ WorkerBroadcast
    \/ WorkerSendTo
    \/ \E t \in Clients : TransportClose(t)
    \/ StopCancel
    \/ StopRange
    \/ StopCloseChans

----------------------------------------------------------------------------
(* The relay path: read pump -> router -> SDP / ICE candidate / data channel
   handler -> Hub.SendTo *)

\* A text frame is modelled by what its bytes determine: the members of the
\* JSON object in the order written, whether insignificant white space
\* separates the tokens, the values of id and type, the timestamp (the
\* instant, and whether its text carries trailing fractional zeros) and the
\* bytes of data (its target, its body, and white space of its own).
CanonicalMembers == <<"id", "type", "timestamp", "data">>
MemberOrders ==
    { CanonicalMembers,
      <<"type", "id", "timestamp", "data">>,
      <<"id", "type", "timestamp", "data", "trace">> }
RelayTypes == {"sdp", "candidate", "data_channel"}

DataBytes == [to : Ids, body : {"offer"}, ws : BOOLEAN]

Frames ==
    [members : MemberOrders, ws : BOOLEAN, id : {"m1"}, type : RelayTypes,
     instant : {"t0"}, fracZeros : BOOLEAN, data : DataBytes]

\* json.Unmarshal into domain.Message (domain/data.go, lines 24-29): the
\* four known members are kept; the order of the members, white space
\* outside data, unknown members and the spelling of the timestamp are not
\* part of the value.  Data is a json.RawMessage: its bytes are kept as read.
Unmarshal(f) ==
    [ID |-> f.id, Type |-> f.type, Timestamp |-> f.instant, Data |-> f.data]

\* json.Marshal of a domain.Message: the members in the order of the struct
\* fields, no white space, the timestamp in RFC 3339 without trailing
\* zeros, the raw data compacted.
Marshal(msg) ==
    [members |-> CanonicalMembers, ws |-> FALSE, id |-> msg.ID,
     type |-> msg.Type, instant |-> msg.Timestamp, fracZeros |-> FALSE,
     data |-> [msg.Data EXCEPT !.ws = FALSE]]

\* SDPHandler.Handle, ICECandidateHandler.Handle, DataChannelHandler.Handle
\* (signal/handler.go, lines 89-114, 132-157, 175-202): the target is read
\* from the payload, the decoded message is marshalled again and handed to
\* SendTo.
RelayTarget(msg) == msg.Data.to
RelayBytes(msg) == Marshal(msg)

\* readPump, lines 142-168, with the relay handler it dispatches to: a frame
\* is read and decoded, and the handler submits it to the hub.
ReadPumpRelay(f) ==
    /\ Cardinality(rLog) < MaxRelay
    /\ SendTo(RelayTarget(Unmarshal(f)), RelayBytes(Unmarshal(f)))
    /\ UNCHANGED notHubRelay
    /\ rLog' = rLog \cup {[orig |-> f,
                           to |-> RelayTarget(Unmarshal(f)),
                           fwd |-> RelayBytes(Unmarshal(f))]}

NextRelay ==
    \/ Start
    \/ \E c \in Clients, id \in Ids : Register(c, id) /\ UNCHANGED notHub
    \/ WorkerRegister
    \/ \E f \in Frames : ReadPumpRelay(f)
    \/ WorkerSendTo

----------------------------------------------------------------------------
(* Hub.Start called more than once: the contexts, the workers and Stop *)

Starts == 1..MaxStarts

\* hub.New: no context, no worker.
NewUnstarted ==
    /\ gCtx = 0
    /\ gDone = [g \in Starts |-> FALSE]
    /\ gWorker = [g \in Starts |-> "none"]
    /\ gWait = [g \in Starts |-> 0]
    /\ gWg = 0
    /\ gReq = 0
    /\ gStop = "idle"

\* The goroutines of run that have not returned.
RunningWorkers == {w \in Starts : gWorker[w] \in {"loop", "select"}}

\* Start, lines 50-56: every call derives a context and a cancel function,
\* stores them in h.ctx and h.cancel, adds one to the wait group and
\* launches run.
HubStart ==
    /\ UNCHANGED notStart
    /\ gCtx < MaxStarts
    /\ gStop = "idle"
    /\ gCtx' = gCtx + 1
    /\ gWg' = gWg + 1
    /\ gWorker' = [gWorker EXCEPT ![gCtx + 1] = "loop"]
    /\ UNCHANGED <<gDone, gWait, gReq, gStop>>

\* The context passed to a call of Start is cancelled by its owner.
HubParentCancel(g) ==
    /\ UNCHANGED notStart
    /\ g <= gCtx
    /\ ~gDone[g]
    /\ gDone' = [gDone EXCEPT ![g] = TRUE]
    /\ UNCHANGED <<gCtx, gWorker, gWait, gWg, gReq, gStop>>

\* A producer enqueues a request.
HubProduce ==
    /\ UNCHANGED notStart
    /\ gCtx > 0
    /\ gReq < MaxReq
    /\ gReq' = gReq + 1
    /\ UNCHANGED <<gCtx, gDone, gWorker, gWait, gWg, gStop>>

\* run, lines 158-160: the worker enters the select; h.ctx.Done() is
\* evaluated now, on the context h.ctx holds at this moment.
RunEnterSelect(w) ==
    /\ UNCHANGED notStart
    /\ gWorker[w] = "loop"
    /\ gWorker' = [gWorker EXCEPT ![w] = "select"]
    /\ gWait' = [gWait EXCEPT ![w] = gCtx]
    /\ UNCHANGED <<gCtx, gDone, gWg, gReq, gStop>>

\* run, lines 160-161 and 156: the context the select waits on is done; the
\* worker returns and the deferred wg.Done runs.
RunCtxDone(w) ==
    /\ UNCHANGED notStart
    /\ gWorker[w] = "select"
    /\ gDone[gWait[w]]
    /\ gWorker' = [gWorker EXCEPT ![w] = "exited"]
    /\ gWg' = gWg - 1
    /\ UNCHANGED <<gCtx, gDone, gWait, gReq, gStop>>

\* run, lines 163-173: a request is received and handled; the loop goes on.
RunRequest(w) ==
    /\ UNCHANGED notStart
    /\ gWorker[w] = "select"
    /\ gReq > 0
    /\ gReq' = gReq - 1
    /\ gWorker' = [gWorker EXCEPT ![w] = "loop"]
    /\ UNCHANGED <<gCtx, gDone, gWait, gWg, gStop>>

\* Stop, line 60: h.cancel(), the cancel function of the last Start.
HubStopCancel ==
    /\ UNCHANGED notStart
    /\ gCtx > 0
    /\ gStop = "idle"
    /\ gDone' = [gDone EXCEPT ![gCtx] = TRUE]
    /\ gStop' = "waiting"
    /\ UNCHANGED <<gCtx, gWorker, gWait, gWg, gReq>>

\* Stop, lines 61-76: wg.Wait() returns when every worker has returned.
HubStopWait ==
    /\ UNCHANGED notStart
    /\ gStop = "waiting"
    /\ gWg = 0
    /\ gStop' = "returned"
    /\ UNCHANGED <<gCtx, gDone, gWorker, gWait, gWg, gReq>>

NextStart ==
    \/ HubStart
    \/ \E g \in Starts : HubParentCancel(g)
    \/ HubProduce
    \/ \E w \in Starts : RunEnterSelect(w)
    \/ \E w \in Starts : RunCtxDone(w)
    \/ \E w \in Starts : RunRequest(w)
    \/ HubStopCancel
    \/ HubStopWait

----------------------------------------------------------------------------
(* The Client that joins its pumps: Start, readPump, writePump, Close *)

\* Who calls Close: the read pump (its deferred call), the hub worker
\* (handleUnregister, Stop) and an external caller.
JoinCallers == {"readPump", "worker", "external"}

\* NewClient.
NewJoinClient ==
    /\ jClosed = FALSE
    /\ jCtxDone = FALSE
    /\ jChanClosed = FALSE
    /\ jConnClosed = FALSE
    /\ jPeerGone = FALSE
    /\ jWg = 0
    /\ jRead = "new"
    /\ jWrite = "new"
    /\ jk = [k \in JoinCallers |-> "idle"]
    /\ jPanicked = FALSE

\* Start: wg.Add(2) and the two pumps.
JoinStart ==
    /\ UNCHANGED notJoin
    /\ ~jPanicked
    /\ jRead = "new"
    /\ jWg' = jWg + 2
    /\ jRead' = "reading"
    /\ jWrite' = "select"
    /\ UNCHANGED <<jClosed, jCtxDone, jChanClosed, jConnClosed, jPeerGone, jk,
                   jPanicked>>

\* The peer disconnects, or the transport fails.
JoinPeerGone ==
    /\ UNCHANGED notJoin
    /\ ~jPanicked
    /\ jRead # "new"
    /\ ~jPeerGone
    /\ jPeerGone' = TRUE
    /\ UNCHANGED <<jClosed, jCtxDone, jChanClosed, jConnClosed, jWg, jRead,
                   jWrite, jk, jPanicked>>

\* readPump: the loop ends, on the done context or on a read error; the
\* deferred functions run last in, first out: c.Close() before wg.Done().
JoinReadReturn ==
    /\ UNCHANGED notJoin
    /\ ~jPanicked
    /\ jRead = "reading"
    /\ jCtxDone \/ jConnClosed \/ jPeerGone
    /\ jRead' = "deferredClose"
    /\ UNCHANGED <<jClosed, jCtxDone, jChanClosed, jConnClosed, jPeerGone, jWg,
                   jWrite, jk, jPanicked>>

\* readPump: the deferred c.Close() has returned; the deferred wg.Done()
\* runs and the goroutine ends.
JoinReadDone ==
    /\ UNCHANGED notJoin
    /\ ~jPanicked
    /\ jRead = "deferredClose"
    /\ jk["readPump"] = "returned"
    /\ jRead' = "exited"
    /\ jWg' = jWg - 1
    /\ UNCHANGED <<jClosed, jCtxDone, jChanClosed, jConnClosed, jPeerGone,
                   jWrite, jk, jPanicked>>

\* writePump: it returns on the done context, on the closed queue, or when
\* a write (a frame or a ping) fails; the deferred wg.Done() runs.
JoinWriteReturn ==
    /\ UNCHANGED notJoin
    /\ ~jPanicked
    /\ jWrite = "select"
    /\ jCtxDone \/ jChanClosed \/ jConnClosed \/ jPeerGone
    /\ jWrite' = "exited"
    /\ jWg' = jWg - 1
    /\ UNCHANGED <<jClosed, jCtxDone, jChanClosed, jConnClosed, jPeerGone,
                   jRead, jk, jPanicked>>

\* Close: test and set of the closed flag under the mutex.  The read pump
\* calls it from its deferred function, the others once the client runs.
JoinCloseLock(k) ==
    /\ UNCHANGED notJoin
    /\ ~jPanicked
    /\ jk[k] = "idle"
    /\ IF k = "readPump" THEN jRead = "deferredClose" ELSE jRead # "new"
    /\ IF jClosed
          THEN /\ jk' = [jk EXCEPT ![k] = "returned"]
               /\ UNCHANGED jClosed
          ELSE /\ jClosed' = TRUE
               /\ jk' = [jk EXCEPT ![k] = "locked"]
    /\ UNCHANGED <<jCtxDone, jChanClosed, jConnClosed, jPeerGone, jWg, jRead,
                   jWrite, jPanicked>>

\* Close: c.cancel().
JoinCloseCancel(k) ==
    /\ UNCHANGED notJoin
    /\ ~jPanicked
    /\ jk[k] = "locked"
    /\ jCtxDone' = TRUE
    /\ jk' = [jk EXCEPT ![k] = "cancelled"]
    /\ UNCHANGED <<jClosed, jChanClosed, jConnClosed, jPeerGone, jWg, jRead,
                   jWrite, jPanicked>>

\* Close: close(c.sendChan); closing a closed channel panics.
JoinCloseChan(k) ==
    /\ UNCHANGED notJoin
    /\ ~jPanicked
    /\ jk[k] = "cancelled"
    /\ jChanClosed' = TRUE
    /\ jPanicked' = jChanClosed
    /\ jk' = [jk EXCEPT ![k] = "chanClosed"]
    /\ UNCHANGED <<jClosed, jCtxDone, jConnClosed, jPeerGone, jWg, jRead,
                   jWrite>>

\* Close: c.conn.Close(); its error is logged.
JoinCloseConn(k) ==
    /\ UNCHANGED notJoin
    /\ ~jPanicked
    /\ jk[k] = "chanClosed"
    /\ jConnClosed' = TRUE
    /\ jk' = [jk EXCEPT ![k] = "waiting"]
    /\ UNCHANGED <<jClosed, jCtxDone, jChanClosed, jPeerGone, jWg, jRead,
                   jWrite, jPanicked>>

\* Close: c.wg.Wait() returns when the counter is zero; Close returns nil.
JoinCloseWait(k) ==
    /\ UNCHANGED notJoin
    /\ ~jPanicked
    /\ jk[k] = "waiting"
    /\ jWg = 0
    /\ jk' = [jk EXCEPT ![k] = "returned"]
    /\ UNCHANGED <<jClosed, jCtxDone, jChanClosed, jConnClosed, jPeerGone, jWg,
                   jRead, jWrite, jPanicked>>

\* The steps the goroutines take by themselves once they can.
JoinProgress ==
    \/ JoinReadReturn
    \/ JoinReadDone
    \/ JoinWriteReturn
    \/ JoinCloseLock("readPump")
    \/ \E k \in JoinCallers : JoinCloseCancel(k)
    \/ \E k \in JoinCallers : JoinCloseChan(k)
    \/ \E k \in JoinCallers : JoinCloseConn(k)
    \/ \E k \in JoinCallers : JoinCloseWait(k)

NextJoin ==
    \/ JoinStart
    \/ JoinPeerGone
    \/ JoinReadReturn
    \/ JoinReadDone
    \/ JoinWriteReturn
    \/ \E k \in JoinCallers : JoinCloseLock(k)
    \/ \E k \in JoinCallers : JoinCloseCancel(k)
    \/ \E k \in JoinCallers : JoinCloseChan(k)
    \/ \E k \in JoinCallers : JoinCloseConn(k)
    \/ \E k \in JoinCallers : JoinCloseWait(k)

----------------------------------------------------------------------------
(* One signaling session: the read pump of a Connection, the router, the
   handlers of package signal, and the hub they call *)

\* The message types a peer may send (domain/data.go, lines 13-21).
InboundTypes ==
    {"register_request", "register_response", "unregister_request", "sdp",
     "candidate", "data_channel"}

\* signal.NewRouter: the handlers registered, by message type.
RegisteredTypes == {"register_request", "sdp", "candidate", "data_channel"}
HandlerFor(ty) ==
    CASE ty = "register_request" -> "RegisterRequestHandler"
      [] ty = "sdp" -> "SDPHandler"
      [] ty = "candidate" -> "ICECandidateHandler"
      [] ty = "data_channel" -> "DataChannelHandler"
RelayHandlers == {"SDPHandler", "ICECandidateHandler", "DataChannelHandler"}

\* An inbound envelope: its type, the id its data carries (client_id of a
\* register request, to_id of a relayed message) and whether its data
\* decodes.  The id is read only from data that decodes, and the data
\* only by a handler.
SessFrames ==
    {f \in [type : InboundTypes, id : Ids, okData : BOOLEAN] :
        /\ f.type \notin RegisteredTypes => f.okData
        /\ (f.type \notin RegisteredTypes \/ ~f.okData) => f.id = 1}

NoFrame == [type |-> "none"]
BadFrame == [type |-> "undecodable"]
NoHandler == "none"
NoResp == [type |-> "none"]
NoReturn == [resp |-> NoResp, err |-> "none"]

\* A registry that falls back on the register handler for a type that has
\* no handler.
GetWithFallback(ty) ==
    IF ty \in RegisteredTypes
       THEN [handler |-> HandlerFor(ty), ok |-> TRUE]
       ELSE [handler |-> "RegisterRequestHandler", ok |-> TRUE]

\* DefaultHandlerRegistry.Get.
Get(ty) ==
    IF ty \in RegisteredTypes
       THEN [handler |-> HandlerFor(ty), ok |-> TRUE]
       ELSE [handler |-> NoHandler, ok |-> FALSE]

\* DefaultHandlerRegistry.Handle and Router.Handle: the handler's return is
\* passed on; without a handler an error and no response.
RegistryHandle(ty, hret) ==
    IF Get(ty).ok THEN hret ELSE [resp |-> NoResp, err |-> "unknownType"]
RouterHandle(ty, hret) == RegistryHandle(ty, hret)

\* domain.RegisterResponse in its envelope (handler.go, lines 47-62).
RegisterResponse(id) ==
    [type |-> "register_response", client_id |-> id, success |-> TRUE]

\* The register handler that answers nothing.
RegisterOutcomeSilent(f, r) ==
    IF ~f.okData THEN [resp |-> NoResp, err |-> "unmarshal"]
    ELSE IF r # "nil" THEN [resp |-> NoResp, err |-> "register"]
    ELSE [resp |-> NoResp, err |-> "nil"]

\* RegisterRequestHandler.Handle, what it returns: r is what hub.Register
\* returned.
RegisterOutcome(f, r) ==
    IF ~f.okData THEN [resp |-> NoResp, err |-> "unmarshal"]
    ELSE IF r # "nil" THEN [resp |-> NoResp, err |-> "register"]
    ELSE [resp |-> RegisterResponse(f.id), err |-> "nil"]

\* SDPHandler.Handle, ICECandidateHandler.Handle, DataChannelHandler.Handle,
\* what they return: r is what hub.SendTo returned.
RelayOutcome(f, r) ==
    IF ~f.okData THEN [resp |-> NoResp, err |-> "unmarshal"]
    ELSE IF r # "nil" THEN [resp |-> NoResp, err |-> "send"]
    ELSE [resp |-> NoResp, err |-> "nil"]

\* The handler h runs on the envelope f: the register handler creates a
\* client object for the connection and calls hub.Register; a relay handler
\* calls hub.SendTo.
HandlerHandle(h, f) ==
    IF h = "RegisterRequestHandler" /\ f.okData
       THEN \E c \in Clients :
               /\ Register(c, f.id)
               /\ rHret' = RegisterOutcome(f, pLast')
    ELSE IF h \in RelayHandlers /\ f.okData
       THEN /\ SendTo(f.id, FreshMsg)
            /\ rHret' = RelayOutcome(f, pLast')
    ELSE /\ UNCHANGED hubVars
         /\ rHret' = IF h = "RegisterRequestHandler"
                        THEN RegisterOutcome(f, "none")
                     ELSE IF h \in RelayHandlers THEN RelayOutcome(f, "none")
                     ELSE NoReturn

\* The read pump that returns when a handler fails.
AfterHandleReturnOnError(err) ==
    IF err = "nil" THEN "select" ELSE "deferredClose"

\* readPump, lines 165-181: what the loop does after router.Handle returned
\* err: it logs and goes on with the next iteration.
AfterHandle(err) == "select"

\* readPump, lines 170-181: the response, if there is one, is marshalled and
\* handed to c.Send with the context of the pump.
SendResponse(ret) ==
    IF ret.err # "nil" \/ ret.resp = NoResp
       THEN /\ rSent' = "none"
            /\ UNCHANGED <<sendChan, accepted, lastRes, lastAfter, lastFull,
                           lastCtx, panicked>>
    ELSE IF closed
       THEN /\ rSent' = "closed"
            /\ lastRes' = "closed"
            /\ lastAfter' = closeReturned
            /\ lastFull' = FALSE
            /\ lastCtx' = FALSE
            /\ UNCHANGED <<sendChan, accepted, panicked>>
    ELSE \E r \in SendReady(startCtxDone) :
            /\ rSent' = r
            /\ lastRes' = r
            /\ sendChan' = IF r = "nil" THEN Append(sendChan, ret.resp)
                                        ELSE sendChan
            /\ accepted' = IF r = "nil" THEN Append(accepted, ret.resp)
                                        ELSE accepted
            /\ panicked' = (r = "panic")
            /\ lastAfter' = closeReturned
            /\ lastFull' = (Len(sendChan) >= SendCap)
            /\ lastCtx' = startCtxDone

\* NewConnection and the router: nothing read yet.
NewSession ==
    /\ rpPc = "select"
    /\ rpFrames = 0
    /\ rFrame = NoFrame
    /\ rInvoked = {}
    /\ rHret = NoReturn
    /\ rRet = NoReturn
    /\ rSent = "none"
    /\ rAfterErr = FALSE

\* readPump, lines 135-142: the select at the top of the loop; with both
\* contexts live the default case runs and the pump blocks in ReadMessage.
ReadPumpSelect ==
    /\ ~panicked /\ ~hPanicked
    /\ UNCHANGED <<connVars, hubVars, notSess>>
    /\ wPc # "new"
    /\ rpPc = "select"
    /\ rpPc' = IF cctxDone \/ startCtxDone THEN "deferredClose" ELSE "blocked"
    /\ UNCHANGED <<rpFrames, rFrame, rInvoked, rHret, rRet, rSent, rAfterErr>>

\* readPump, lines 142-150: ReadMessage fails on the closed transport.
ReadPumpReadError ==
    /\ ~panicked /\ ~hPanicked
    /\ UNCHANGED <<connVars, hubVars, notSess>>
    /\ rpPc = "blocked"
    /\ wsClosed
    /\ rpPc' = "deferredClose"
    /\ UNCHANGED <<rpFrames, rFrame, rInvoked, rHret, rRet, rSent, rAfterErr>>

\* readPump, lines 129-133 and 142-150: ReadMessage fails because the read
\* deadline has passed.  The deadline is set when the pump starts and moved
\* only by the pong handler, so it passes when no pong has arrived for the
\* read timeout.
ReadPumpTimeout ==
    /\ ~panicked /\ ~hPanicked
    /\ UNCHANGED <<connVars, hubVars, notSess>>
    /\ rpPc = "blocked"
    /\ ~wsClosed
    /\ rpPc' = "deferredClose"
    /\ UNCHANGED <<rpFrames, rFrame, rInvoked, rHret, rRet, rSent, rAfterErr>>

\* The read pump that gives up on a frame it cannot decode.
ReadPumpUndecodableReturns ==
    /\ ~panicked /\ ~hPanicked
    /\ UNCHANGED <<connVars, hubVars, notSess>>
    /\ rpPc = "blocked"
    /\ ~wsClosed
    /\ rpFrames < MaxFrames
    /\ rpFrames' = rpFrames + 1
    /\ rFrame' = BadFrame
    /\ rAfterErr' = (rRet.err \notin {"nil", "none"})
    /\ rInvoked' = {}
    /\ rHret' = NoReturn
    /\ rRet' = NoReturn
    /\ rSent' = "none"
    /\ rpPc' = "deferredClose"

\* readPump, lines 142-162: a frame is read whose bytes are not an envelope
\* (json.Unmarshal fails): the error is logged and the loop goes on; the
\* router is not called.
ReadPumpUndecodable ==
    /\ ~panicked /\ ~hPanicked
    /\ UNCHANGED <<connVars, hubVars, notSess>>
    /\ rpPc = "blocked"
    /\ ~wsClosed
    /\ rpFrames < MaxFrames
    /\ rpFrames' = rpFrames + 1
    /\ rFrame' = BadFrame
    /\ rAfterErr' = (rRet.err \notin {"nil", "none"})
    /\ rInvoked' = {}
    /\ rHret' = NoReturn
    /\ rRet' = NoReturn
    /\ rSent' = "none"
    /\ rpPc' = "select"

\* readPump, lines 142-181: a text frame is read and decoded, the router
\* dispatches it, the handler runs, and the response is sent.
ReadPumpFrame(f) ==
    /\ ~panicked /\ ~hPanicked
    /\ UNCHANGED notSess
    /\ rpPc = "blocked"
    /\ ~wsClosed
    /\ rpFrames < MaxFrames
    /\ rpFrames' = rpFrames + 1
    /\ rFrame' = f
    /\ rAfterErr' = (rRet.err \notin {"nil", "none"})
    /\ rInvoked' = IF Get(f.type).ok THEN {Get(f.type).handler} ELSE {}
    /\ HandlerHandle(Get(f.type).handler, f)
    /\ rRet' = RouterHandle(f.type, rHret')
    /\ SendResponse(rRet')
    /\ rpPc' = AfterHandle(rRet'.err)
    /\ UNCHANGED <<closed, cctxDone, chanClosed, wsClosed, nCancel, nChanClose,
                   nWsClose, written, closeFrames, nextMsg, sPc, sMsg, sCtx,
                   sAfter, nDrained, kPc, kRes, kFirst, closeReturned, nAtClose,
                   wPc, wN, startCtxDone>>

\* readPump, lines 123-126: the deferred function calls c.Close().
ReadPumpClose ==
    /\ rpPc = "deferredClose"
    /\ \A k \in Closers : kPc[k] = "idle"
    /\ \E k \in Closers : CloseLock(k)

\* readPump: the deferred Close has returned and the goroutine ends; Start
\* returns (lines 112, 118-119).
ReadPumpDone ==
    /\ ~panicked /\ ~hPanicked
    /\ UNCHANGED <<connVars, hubVars, notSess>>
    /\ rpPc = "deferredClose"
    /\ \E k \in Closers : kPc[k] = "returned"
    /\ rpPc' = "exited"
    /\ UNCHANGED <<rpFrames, rFrame, rInvoked, rHret, rRet, rSent, rAfterErr>>

\* The steps the goroutines of the session and the hub worker take by
\* themselves once they can.
SessProgress ==
    \/ ReadPumpSelect
    \/ ReadPumpReadError
    \/ ReadPumpClose
    \/ \E k \in Closers : CloseCancel(k)
    \/ \E k \in Closers : CloseChan(k)
    \/ \E k \in Closers : CloseConn(k)
    \/ ReadPumpDone
    \/ WorkerRegister
    \/ WorkerCtxDone

NextSess ==
    \/ Start
    \/ ParentCancel
    \/ WorkerRegister
    \/ WorkerCtxDone
    \/ ConnStart
    \/ StartCtxCancel
    \/ ConnTransportClose
    \/ WriteRecv
    \/ WriteDrain
    \/ WriteCtxDone
    \/ WriteClosed
    \/ ReadPumpSelect
    \/ ReadPumpReadError
    \/ ReadPumpTimeout
    \/ ReadPumpUndecodable
    \/ \E f \in SessFrames : ReadPumpFrame(f)
    \/ ReadPumpClose
    \/ \E k \in Closers : CloseCancel(k)
    \/ \E k \in Closers : CloseChan(k)
    \/ \E k \in Closers : CloseConn(k)
    \/ ReadPumpDone

----------------------------------------------------------------------------
(* Delivery to a registered peer: Hub.handleSendTo -> client.Send ->
   ws.Conn.WriteMessage, beside the Connection that serves the same peer *)

\* The peer whose register request created the first client object is the
\* peer served by the Connection modelled above: Server.Handle puts the
\* ws.Conn into the request context (signal/server.go, lines 56-57) and the
\* register handler wraps that same ws.Conn in the client it registers
\* (signal/handler.go, lines 34-40).
FirstClient == CHOOSE c \in Clients : \A d \in Clients : c <= d
ConnTransport == ConnOf(FirstClient)

\* The worker is at its select; no peer is stalled.
NewDeliver ==
    /\ dwPc = "select"
    /\ dwTo = 0
    /\ dwMsg = NilFrame
    /\ dStalled = [t \in Clients |-> FALSE]

\* The peer behind a transport stops reading: once the buffers are full a
\* write on the transport blocks.
Stall(t) ==
    /\ ~hPanicked /\ ~panicked
    /\ t \in {ConnOf(c) : c \in Created}
    /\ ~tClosed[t]
    /\ ~dStalled[t]
    /\ dStalled' = [dStalled EXCEPT ![t] = TRUE]
    /\ UNCHANGED <<dwPc, dwTo, dwMsg>>
    /\ UNCHANGED <<connVars, hubVars, notDeliver>>

\* The peer reads again.
Resume(t) ==
    /\ ~hPanicked /\ ~panicked
    /\ dStalled[t]
    /\ dStalled' = [dStalled EXCEPT ![t] = FALSE]
    /\ UNCHANGED <<dwPc, dwTo, dwMsg>>
    /\ UNCHANGED <<connVars, hubVars, notDeliver>>

\* writePump, lines 205, 230 and 243: the write pump sets the write deadline
\* of the ws.Conn each time it has received from the queue; a client.Send
\* never sets one.  The deadline is a property of the ws.Conn: it also ends
\* a blocked write of the hub worker.  Of the transports whose Connection is
\* not modelled nothing is known.
DeadlineSet(t) == t # ConnTransport \/ Len(accepted) > Len(sendChan)

\* run, lines 172-173, and handleSendTo, lines 239-247, up to the call of
\* client.Send: the request is taken, the client looked up, and client.Send
\* (domain/client.go, lines 26-31) calls conn.WriteMessage on the worker's
\* goroutine.
WorkerSendToCall ==
    /\ ~hPanicked /\ ~panicked
    /\ workerUp
    /\ dwPc = "select"
    /\ sendToQ # <<>>
    /\ sendToQ' = Tail(sendToQ)
    /\ IF ~Has(Head(sendToQ).clientID)
          THEN /\ wLast' = "notFound"
               /\ UNCHANGED <<dwPc, dwTo, dwMsg>>
          ELSE \E c \in {e.client : e \in Load(Head(sendToQ).clientID)} :
                 IF cConnNil[c]
                    THEN /\ wLast' = "sendFailed"
                         /\ UNCHANGED <<dwPc, dwTo, dwMsg>>
                    ELSE /\ dwPc' = "writing"
                         /\ dwTo' = c
                         /\ dwMsg' = Head(sendToQ).message
                         /\ wLast' = "writing"
    /\ UNCHANGED <<hStarted, hCtxDone, workerUp, stopPc, stopSnapshot,
                   chansClosed, regQ, unregQ, bcastQ, clients, cConnNil, tClosed,
                   tOut, messagesSent, messagesReceived, cId, hOps, pLast,
                   hPanicked, dStalled>>
    /\ UNCHANGED <<connVars, notDeliver>>

\* client.Send, lines 31-36, and handleSendTo, lines 248-257:
\* conn.WriteMessage returns.  On a stalled transport it returns only with
\* an error, when the transport is closed or a write deadline ends the wait.
WorkerWriteReturn ==
    /\ ~hPanicked /\ ~panicked
    /\ dwPc = "writing"
    /\ \E ok \in BOOLEAN :
         /\ ok => (~tClosed[ConnOf(dwTo)] /\ ~dStalled[ConnOf(dwTo)])
         /\ ~ok => \/ tClosed[ConnOf(dwTo)]
                   \/ ~dStalled[ConnOf(dwTo)]
                   \/ DeadlineSet(ConnOf(dwTo))
         /\ tOut' = IF ok THEN [tOut EXCEPT ![ConnOf(dwTo)] = Append(@, dwMsg)]
                          ELSE tOut
         /\ messagesSent' = IF ok THEN messagesSent + 1 ELSE messagesSent
         /\ wLast' = IF ok THEN "sent" ELSE "sendFailed"
    /\ dwPc' = "select"
    /\ dwTo' = 0
    /\ dwMsg' = NilFrame
    /\ UNCHANGED <<hStarted, hCtxDone, workerUp, stopPc, stopSnapshot,
                   chansClosed, regQ, unregQ, sendToQ, bcastQ, clients, cConnNil,
                   tClosed, messagesReceived, cId, hOps, pLast, hPanicked,
                   dStalled>>
    /\ UNCHANGED <<connVars, notDeliver>>

\* The one goroutine that calls Send on the Connection here: its read pump,
\* with the responses of the handlers (readPump, lines 170-181).
PumpSender == CHOOSE s \in Senders : \A q \in Senders : s <= q

\* The hub with its worker in handleSendTo, the producers, and the
\* Connection of the first peer with its one sender (the read pump, sending
\* responses) and its write pump.
NextDeliver ==
    \/ Start
    \/ \E c \in Clients, id \in Ids : Register(c, id) /\ UNCHANGED notHub
    \/ dwPc = "select" /\ WorkerRegister
    \/ \E id \in Ids : SendTo(id, FreshMsg) /\ UNCHANGED notHub
    \/ WorkerSendToCall
    \/ WorkerWriteReturn
    \/ \E t \in Clients : Stall(t)
    \/ \E t \in Clients : Resume(t)
    \/ ConnStart
    \/ SendCheck(PumpSender)
    \/ SendSelect(PumpSender)
    \/ ~dStalled[ConnTransport] /\ WriteRecv
    \/ ~dStalled[ConnTransport] /\ WriteDrain

----------------------------------------------------------------------------
(* The configuration of the server: config.Load and loadConfig of
   cmd/server *)

\* The settings the flags of the server can override.
Settings == {"host", "port", "level"}

\* What loadConfig is given: whether -config names a file, the settings the
\* file holds, the variables set in the environment (CONIC_SERVER_HOST,
\* CONIC_SERVER_PORT, CONIC_LOG_LEVEL), whether the text of the port
\* variable is not a number, and the flags given (-host, -port,
\* -log-level).  A value is modelled by the source it comes from.
ConfigInputs ==
    {i \in [given : {TRUE}, path : BOOLEAN, file : SUBSET Settings,
            env : SUBSET Settings, envPortText : BOOLEAN,
            flag : SUBSET Settings] :
        /\ ~i.path => i.file = {}
        /\ i.envPortText => "port" \in i.env}

NoInput == [given |-> FALSE]
NoConfig == [given |-> FALSE]

\* config.Default.
Default == [s \in Settings |-> "default"]

\* loadFromFile: the settings the file holds replace the defaults.
loadFromFile(cfg, i) ==
    [s \in Settings |-> IF s \in i.file THEN "file" ELSE cfg[s]]

\* loadFromEnv: a variable that is set replaces the setting; the port only
\* when its text parses as a number.
loadFromEnv(cfg, i) ==
    [s \in Settings |->
        IF s \in i.env /\ ~(s = "port" /\ i.envPortText) THEN "env"
                                                         ELSE cfg[s]]

\* config.Load: defaults, then the file when a path is given, then the
\* environment.
ConfigLoad(i) ==
    loadFromEnv(IF i.path THEN loadFromFile(Default, i) ELSE Default, i)

\* loadConfig: config.Load is called only when a path is given, otherwise
\* the defaults are taken as they are; then the flags given replace the
\* settings.
loadConfig(i) ==
    [s \in Settings |->
        IF s \in i.flag THEN "flag"
        ELSE IF i.path THEN ConfigLoad(i)[s]
        ELSE Default[s]]

\* main, line 133: the server loads its configuration.
LoadConfigCall ==
    /\ cfgIn.given
    /\ ~cfgOut.given
    /\ cfgOut' = [given |-> TRUE, cfg |-> loadConfig(cfgIn)]
    /\ UNCHANGED cfgIn
    /\ UNCHANGED notConfig

NextConfig == LoadConfigCall

----------------------------------------------------------------------------
(* The envelope codec: JSONCodec.Encode and JSONCodec.Decode *)

\* The envelopes given to Encode: id, type, timestamp and the bytes of data.
EnvelopeIds == {"m1", "m2"}
EnvelopeInstants == {"t0", "t1"}
Envelopes ==
    [ID : EnvelopeIds, Type : InboundTypes, Timestamp : EnvelopeInstants,
     Data : DataBytes]

NoEnvelope == [given |-> FALSE]
NoBytes == [given |-> FALSE]

\* JSONCodec.Encode: json.Marshal of the message.
Encode(msg) == Marshal(msg)

\* JSONCodec.Decode: json.Unmarshal into a message.
Decode(data) == Unmarshal(data)

CodecEncode ==
    /\ ~eEnc.given
    /\ eMsg \in Envelopes
    /\ eEnc' = [given |-> TRUE, bytes |-> Encode(eMsg)]
    /\ UNCHANGED <<eMsg, eDec>>
    /\ UNCHANGED notCodec

CodecDecode ==
    /\ eEnc.given
    /\ ~eDec.given
    /\ eDec' = [given |-> TRUE, msg |-> Decode(eEnc.bytes)]
    /\ UNCHANGED <<eMsg, eEnc>>
    /\ UNCHANGED notCodec

NextCodec ==
    \/ CodecEncode
    \/ CodecDecode

----------------------------------------------------------------------------
(* The hub with unbuffered channels (src/hub.go) and the sockets that serve
   its clients (src/websocket.go) *)

\* Sockets served in one run.
NSockets == 2
Sockets == 1..NSockets
\* Ids that xid.New issues in one run.
MaxLegacyIds == 2
LegacyIds == 1..MaxLegacyIds
\* Text frames one socket reads in one run.
MaxSockFrames == 2

NoRequest == [type |-> "none"]

\* The request types handleMessage submits to the hub (websocket.go, lines
\* 150-205); an sdp and a candidate request both become a MessageRequest.
SocketRequests ==
    [type : {"unregister"}, id : LegacyIds]
        \cup [type : {"sendMessage"}, id : LegacyIds, target : LegacyIds]

\* A call of Register, Unregister or SendMessage that waits for the worker
\* to receive its request (hub.go, lines 72-90: a send on an unbuffered
\* channel).
HubCalls == {"register", "unregister", "sendMessage"}

\* NewHub (hub.go, lines 28-35) and NewSocket (websocket.go, lines 30-39),
\* with Run and Serve started: every goroutine is at the top of its loop.
NewHub ==
    /\ lClients = [i \in LegacyIds |-> 0]
    /\ lNextId = 0
    /\ lwPc = "select"
    /\ lwTo = 0
    /\ lPanicked = FALSE
    /\ sRead = [s \in Sockets |-> "reading"]
    /\ sReq = [s \in Sockets |-> NoRequest]
    /\ sFrames = [s \in Sockets |-> 0]
    /\ sWrite = [s \in Sockets |-> "select"]
    /\ sDone = [s \in Sockets |-> FALSE]
    /\ sCloseCh = [s \in Sockets |-> FALSE]

\* socket.read and handleMessage, lines 91-102 and 150-157: a register
\* request is read, an id is generated and hub.Register is called.
SocketReadRegister(s) ==
    /\ ~lPanicked
    /\ UNCHANGED notLegacy
    /\ sRead[s] = "reading"
    /\ sFrames[s] < MaxSockFrames
    /\ lNextId < MaxLegacyIds
    /\ lNextId' = lNextId + 1
    /\ sFrames' = [sFrames EXCEPT ![s] = @ + 1]
    /\ sReq' = [sReq EXCEPT ![s] = [type |-> "register", id |-> lNextId + 1]]
    /\ sRead' = [sRead EXCEPT ![s] = "register"]
    /\ UNCHANGED <<lClients, lwPc, lwTo, lPanicked, sWrite, sDone, sCloseCh>>

\* socket.read and handleMessage, lines 91-102 and 171-204: an unregister,
\* sdp or candidate request is read and hub.Unregister or hub.SendMessage
\* is called.
SocketReadRequest(s, req) ==
    /\ ~lPanicked
    /\ UNCHANGED notLegacy
    /\ sRead[s] = "reading"
    /\ sFrames[s] < MaxSockFrames
    /\ sFrames' = [sFrames EXCEPT ![s] = @ + 1]
    /\ sReq' = [sReq EXCEPT ![s] = req]
    /\ sRead' = [sRead EXCEPT ![s] = req.type]
    /\ UNCHANGED <<lClients, lNextId, lwPc, lwTo, lPanicked, sWrite, sDone,
                   sCloseCh>>

\* socket.read, lines 88-95 and 103-104: the transport fails (ReadMessage
\* returns an error) or the peer closes; read returns and its deferred
\* close(s.done) runs.
SocketReadFails(s) ==
    /\ ~lPanicked
    /\ UNCHANGED notLegacy
    /\ sRead[s] = "reading"
    /\ sRead' = [sRead EXCEPT ![s] = "exited"]
    /\ sDone' = [sDone EXCEPT ![s] = TRUE]
    /\ UNCHANGED <<lClients, lNextId, lwPc, lwTo, lPanicked, sReq, sFrames,
                   sWrite, sCloseCh>>

\* socket.write, lines 213-214: done is closed, the loop returns.
SocketWriteDone(s) ==
    /\ ~lPanicked
    /\ UNCHANGED notLegacy
    /\ sWrite[s] = "select"
    /\ sDone[s]
    /\ sWrite' = [sWrite EXCEPT ![s] = "exited"]
    /\ UNCHANGED <<lClients, lNextId, lwPc, lwTo, lPanicked, sRead, sReq,
                   sFrames, sDone, sCloseCh>>

\* socket.write, lines 223-227: closeChannel is closed; a close message is
\* written and the loop returns.
SocketWriteClose(s) ==
    /\ ~lPanicked
    /\ UNCHANGED notLegacy
    /\ sWrite[s] = "select"
    /\ sCloseCh[s]
    /\ sWrite' = [sWrite EXCEPT ![s] = "exited"]
    /\ UNCHANGED <<lClients, lNextId, lwPc, lwTo, lPanicked, sRead, sReq,
                   sFrames, sDone, sCloseCh>>

\* What conn.WriteMessage returns in the write loop: nil, or an error on a
\* failed transport.
SocketWriteOutcomes == {TRUE, FALSE}

\* The write loop after WriteMessage (lines 216-218 and 220-222): on an
\* error it returns.
AfterSocketWrite(ok) == IF ok THEN "select" ELSE "exited"

\* hub.Run, lines 40-42: the worker receives a register request and stores
\* the socket; Register returns in handleMessage, which goes on to
\* s.Write(response) (websocket.go, lines 159-170).
RunRegister(s) ==
    /\ ~lPanicked
    /\ UNCHANGED notLegacy
    /\ lwPc = "select"
    /\ sRead[s] = "register"
    /\ lClients' = [lClients EXCEPT ![sReq[s].id] = s]
    /\ sRead' = [sRead EXCEPT ![s] = "respond"]
    /\ UNCHANGED <<lNextId, lwPc, lwTo, lPanicked, sReq, sFrames, sWrite,
                   sDone, sCloseCh>>

\* socket.Write called by the socket's own read goroutine (websocket.go,
\* lines 73-76 and 168) meets the write loop at `case t := <-s.dataChannel`
\* (lines 215-218).
SocketRespond(s) ==
    /\ ~lPanicked
    /\ UNCHANGED notLegacy
    /\ sRead[s] = "respond"
    /\ sWrite[s] = "select"
    /\ \E ok \in SocketWriteOutcomes :
         sWrite' = [sWrite EXCEPT ![s] = AfterSocketWrite(ok)]
    /\ sRead' = [sRead EXCEPT ![s] = "reading"]
    /\ sReq' = [sReq EXCEPT ![s] = NoRequest]
    /\ UNCHANGED <<lClients, lNextId, lwPc, lwTo, lPanicked, sFrames, sDone,
                   sCloseCh>>

\* hub.Run, lines 43-51: the worker receives an unregister request; a
\* socket found under the id is closed (socket.Close, websocket.go, lines
\* 82-85: close(s.closeChannel), which panics on a channel closed before)
\* and its entry deleted.
RunUnregister(s) ==
    /\ ~lPanicked
    /\ UNCHANGED notLegacy
    /\ lwPc = "select"
    /\ sRead[s] = "unregister"
    /\ LET c == lClients[sReq[s].id]
       IN  IF c = 0
              THEN UNCHANGED <<lClients, sCloseCh, lPanicked>>
              ELSE /\ lPanicked' = sCloseCh[c]
                   /\ sCloseCh' = [sCloseCh EXCEPT ![c] = TRUE]
                   /\ lClients' = IF sCloseCh[c] THEN lClients
                                  ELSE [lClients EXCEPT ![sReq[s].id] = 0]
    /\ sRead' = [sRead EXCEPT ![s] = "reading"]
    /\ sReq' = [sReq EXCEPT ![s] = NoRequest]
    /\ UNCHANGED <<lNextId, lwPc, lwTo, sFrames, sWrite, sDone>>

\* hub.Run, lines 52-61: the worker receives a message request; it calls
\* Write on the socket registered under the target id, or, without one,
\* Error on the socket registered under the sender's id.  Both are sends on
\* an unbuffered channel of that socket (websocket.go, lines 73-80).
RunSendMessage(s) ==
    /\ ~lPanicked
    /\ UNCHANGED notLegacy
    /\ lwPc = "select"
    /\ sRead[s] = "sendMessage"
    /\ IF lClients[sReq[s].target] # 0
          THEN lwPc' = "write" /\ lwTo' = lClients[sReq[s].target]
       ELSE IF lClients[sReq[s].id] # 0
          THEN lwPc' = "error" /\ lwTo' = lClients[sReq[s].id]
       ELSE UNCHANGED <<lwPc, lwTo>>
    /\ sRead' = [sRead EXCEPT ![s] = "reading"]
    /\ sReq' = [sReq EXCEPT ![s] = NoRequest]
    /\ UNCHANGED <<lClients, lNextId, lPanicked, sFrames, sWrite, sDone,
                   sCloseCh>>

\* The worker's send in socket.Write or socket.Error meets the write loop
\* of that socket at its select (websocket.go, lines 215-222); Write
\* returns nil and the worker is back at its select (hub.go, lines 54-56).
RunDeliver ==
    /\ ~lPanicked
    /\ UNCHANGED notLegacy
    /\ lwPc \in {"write", "error"}
    /\ sWrite[lwTo] = "select"
    /\ \E ok \in SocketWriteOutcomes :
         sWrite' = [sWrite EXCEPT ![lwTo] = AfterSocketWrite(ok)]
    /\ lwPc' = "select"
    /\ lwTo' = 0
    /\ UNCHANGED <<lClients, lNextId, lPanicked, sRead, sReq, sFrames, sDone,
                   sCloseCh>>

\* The worker of the hub.
RunStep ==
    \/ \E s \in Sockets : RunRegister(s)
    \/ \E s \in Sockets : RunUnregister(s)
    \/ \E s \in Sockets : RunSendMessage(s)
    \/ RunDeliver

\* The write loops of the sockets.
SocketWriteStep ==
    \/ \E s \in Sockets : SocketRespond(s)
    \/ \E s \in Sockets : SocketWriteDone(s)
    \/ \E s \in Sockets : SocketWriteClose(s)

NextLegacy ==
    \/ \E s \in Sockets : SocketReadRegister(s)
    \/ \E s \in Sockets, req \in SocketRequests : SocketReadRequest(s, req)
    \/ \E s \in Sockets : SocketReadFails(s)
    \/ \E s \in Sockets : SocketWriteDone(s)
    \/ \E s \in Sockets : SocketWriteClose(s)
    \/ \E s \in Sockets : RunRegister(s)
    \/ \E s \in Sockets : SocketRespond(s)
    \/ \E s \in Sockets : RunUnregister(s)
    \/ \E s \in Sockets : RunSendMessage(s)
    \/ RunDeliver

----------------------------------------------------------------------------
(* ICE candidates of webrtc.PeerConnection (src/internal/webrtc/peer.go) *)

\* Concurrent callers of AddICECandidate.
NAdders == 2
Adders == 1..NAdders
\* Candidates passed to AddICECandidate in one run.
MaxCands == 3

\* NewPeerConnection, line 90: no remote description, no pending candidate.
NewPeerConnection ==
    /\ iRemoteSet = FALSE
    /\ iPending = <<>>
    /\ iApplied = <<>>
    /\ iNext = 0
    /\ aPc = [a \in Adders |-> "idle"]
    /\ aCand = [a \in Adders |-> 0]
    /\ dPc = "idle"
    /\ dSnap = <<>>

\* AddICECandidate, line 183: the test of pc.RemoteDescription().  The
\* callers enter in the order of their candidates.
AddCheck(a) ==
    /\ UNCHANGED notIce
    /\ aPc[a] = "idle"
    /\ \A b \in Adders : b < a => aPc[b] # "idle"
    /\ iNext < MaxCands
    /\ iNext' = iNext + 1
    /\ aCand' = [aCand EXCEPT ![a] = iNext + 1]
    /\ aPc' = [aPc EXCEPT ![a] = IF iRemoteSet THEN "apply" ELSE "queue"]
    /\ UNCHANGED <<iRemoteSet, iPending, iApplied, dPc, dSnap>>

\* AddICECandidate, lines 184-188: the candidate is appended to the pending
\* candidates under the mutex, and the call returns.
AddQueue(a) ==
    /\ UNCHANGED notIce
    /\ aPc[a] = "queue"
    /\ iPending' = Append(iPending, aCand[a])
    /\ aPc' = [aPc EXCEPT ![a] = "idle"]
    /\ UNCHANGED <<iRemoteSet, iApplied, iNext, aCand, dPc, dSnap>>

\* AddICECandidate, lines 191-197: the candidate is given to the underlying
\* peer connection, and the call returns.
AddApply(a) ==
    /\ UNCHANGED notIce
    /\ aPc[a] = "apply"
    /\ iApplied' = Append(iApplied, aCand[a])
    /\ aPc' = [aPc EXCEPT ![a] = "idle"]
    /\ UNCHANGED <<iRemoteSet, iPending, iNext, aCand, dPc, dSnap>>

\* SetRemoteDescription, lines 168-170: the underlying peer connection
\* takes the description.
SetRemote ==
    /\ UNCHANGED notIce
    /\ dPc = "idle"
    /\ iRemoteSet' = TRUE
    /\ dPc' = "process"
    /\ UNCHANGED <<iPending, iApplied, iNext, aPc, aCand, dSnap>>

\* processPendingCandidates, lines 371-374: under the mutex the pending
\* candidates are taken and the field is reset.
ProcessTake ==
    /\ UNCHANGED notIce
    /\ dPc = "process"
    /\ dSnap' = iPending
    /\ iPending' = <<>>
    /\ dPc' = "range"
    /\ UNCHANGED <<iRemoteSet, iApplied, iNext, aPc, aCand>>

\* processPendingCandidates, lines 376-382: the candidates taken are given
\* to the underlying peer connection one after the other; then
\* SetRemoteDescription returns.
ProcessApply ==
    /\ UNCHANGED notIce
    /\ dPc = "range"
    /\ IF dSnap = <<>>
          THEN /\ dPc' = "returned"
               /\ UNCHANGED <<iApplied, dSnap>>
          ELSE /\ iApplied' = Append(iApplied, Head(dSnap))
               /\ dSnap' = Tail(dSnap)
               /\ dPc' = dPc
    /\ UNCHANGED <<iRemoteSet, iPending, iNext, aPc, aCand>>

NextIce ==
    \/ \E a \in Adders : AddCheck(a)
    \/ \E a \in Adders : AddQueue(a)
    \/ \E a \in Adders : AddApply(a)
    \/ SetRemote
    \/ ProcessTake
    \/ ProcessApply

----------------------------------------------------------------------------
(* The counters of the hub, with SendTo seen in its two steps: the enqueue
   (hub.go, line 115) and the count (line 116) *)

\* SendTo, lines 113-115 and 118-122: the select; a call that has enqueued
\* goes on to count.
SendToSelect(id, m) ==
    /\ ~hPanicked
    /\ UNCHANGED notStat
    /\ hStarted
    /\ hOps < MaxOps
    /\ hOps' = hOps + 1
    /\ \E r \in ProducerReady(sendToQ, MsgCap) :
         /\ pLast' = r
         /\ sendToQ' = IF r = "nil"
                          THEN Append(sendToQ, [clientID |-> id, message |-> m])
                          ELSE sendToQ
         /\ pCounting' = IF r = "nil" THEN pCounting + 1 ELSE pCounting
         /\ hPanicked' = (r = "panic")
    /\ UNCHANGED <<hStarted, hCtxDone, workerUp, stopPc, stopSnapshot,
                   chansClosed, regQ, unregQ, bcastQ, clients, cConnNil, tClosed,
                   tOut, messagesSent, messagesReceived, cId, wLast>>

\* SendTo, lines 116-117: atomic.AddInt64(&h.messagesReceived, 1), and the
\* call returns nil.
SendToCount ==
    /\ ~hPanicked
    /\ UNCHANGED notStat
    /\ pCounting > 0
    /\ pCounting' = pCounting - 1
    /\ messagesReceived' = messagesReceived + 1
    /\ UNCHANGED <<hStarted, hCtxDone, workerUp, stopPc, stopSnapshot,
                   chansClosed, regQ, unregQ, sendToQ, bcastQ, clients, cConnNil,
                   tClosed, tOut, messagesSent, cId, hOps, wLast, pLast,
                   hPanicked>>

\* A run of the hub that uses send_to only.
NextStat ==
    \/ Start
    \/ \E c \in Clients, id \in Ids : Register(c, id) /\ UNCHANGED notHub
    \/ WorkerRegister
    \/ \E id \in Ids : SendToSelect(id, FreshMsg)
    \/ SendToCount
    \/ WorkerSendTo
    \/ \E t \in Clients : TransportClose(t)

\* The program after construction: the hub, the Connection, the clients and
\* the session.
InitProgram ==
    /\ NewConnection /\ New /\ rLog = {}
    /\ NewUnstarted /\ NewJoinClient /\ NewSession
    /\ NewDeliver
    /\ NewHub /\ NewPeerConnection
    /\ pCounting = 0

Init ==
    /\ InitProgram
    /\ cfgIn = NoInput /\ cfgOut = NoConfig
    /\ eMsg = NoEnvelope /\ eEnc = NoBytes /\ eDec = NoEnvelope

\* The server is started with any combination of file, environment and
\* flags.
InitConfig ==
    /\ InitProgram
    /\ cfgIn \in ConfigInputs /\ cfgOut = NoConfig
    /\ eMsg = NoEnvelope /\ eEnc = NoBytes /\ eDec = NoEnvelope

\* The codec is given any envelope.
InitCodec ==
    /\ InitProgram
    /\ cfgIn = NoInput /\ cfgOut = NoConfig
    /\ eMsg \in Envelopes /\ eEnc = NoBytes /\ eDec = NoEnvelope

SpecConn == Init /\ [][NextConn]_vars

SpecHub == Init /\ [][NextHub]_vars

\* The worker of the hub and the caller of Stop are scheduled.
SpecHubLive ==
    /\ Init /\ [][NextHub]_vars
    /\ WF_vars(WorkerCtxDone \/ WorkerRegister \/ WorkerUnregister
                 \/ WorkerBroadcast \/ WorkerSendTo)
    /\ WF_vars(StopRange \/ StopCloseChans)

SpecRelay == Init /\ [][NextRelay]_vars

SpecStart == Init /\ [][NextStart]_vars

SpecSess == Init /\ [][NextSess]_vars

\* The goroutines of the session and the hub worker are scheduled: a step
\* they can take is taken eventually.
SpecSessLive ==
    Init /\ [][NextSess]_vars /\ WF_vars(WorkerRegister) /\ WF_vars(SessProgress)

\* The write pump is scheduled too, and the peer answers pings only: once
\* the write pump has exited no ping is sent, no pong arrives, and the read
\* deadline passes.
SpecSessCancel ==
    /\ Init /\ [][NextSess]_vars
    /\ WF_vars(SessProgress)
    /\ WF_vars(WriteCtxDone \/ WriteClosed \/ WriteRecv \/ WriteDrain)
    /\ WF_vars(ReadPumpTimeout /\ wPc = "exited")

\* The goroutines of the Client are scheduled: a step one of them can take
\* is taken eventually.
SpecJoin == Init /\ [][NextJoin]_vars /\ WF_vars(JoinProgress)

SpecDeliver == Init /\ [][NextDeliver]_vars

SpecConfig == InitConfig /\ [][NextConfig]_vars

SpecCodec == InitCodec /\ [][NextCodec]_vars

\* The worker of the hub and the write loops of the sockets are scheduled.
SpecLegacy ==
    /\ Init /\ [][NextLegacy]_vars
    /\ WF_vars(RunStep)
    /\ WF_vars(SocketWriteStep)

SpecIce == Init /\ [][NextIce]_vars

SpecStat == Init /\ [][NextStat]_vars

----------------------------------------------------------------------------
(* Properties of websocket.Connection, checked under SpecConn *)

\* C3: once a call of Close has returned, every call of Send that begins
\* later returns the "connection is closed" error at the test of the closed
\* flag: it never reaches the select, the only place that enqueues.
C3_NoSendAfterClose ==
    /\ \A s \in Senders : sPc[s] = "select" => ~sAfter[s]
    /\ lastAfter => lastRes = "closed"

\* A Send that began after a Close had returned has returned its error.
C3_Witness ==
    closeReturned /\ lastAfter /\ lastRes = "closed" /\ Len(accepted) > 0

\* C4: Close is idempotent: the context is cancelled, the queue closed and
\* the transport closed at most once, by the one call that found the flag
\* unset; when that call has returned each was done exactly once; every
\* other call returns nil, and no call panics closing the queue twice.
C4_CloseIdempotent ==
    /\ nCancel <= 1 /\ nChanClose <= 1 /\ nWsClose <= 1
    /\ Cardinality({k \in Closers : kFirst[k]}) <= 1
    /\ \A k \in Closers :
         /\ (kPc[k] = "returned" /\ kFirst[k])
               => (nCancel = 1 /\ nChanClose = 1 /\ nWsClose = 1)
         /\ (kPc[k] = "returned" /\ ~kFirst[k]) => kRes[k] = "nil"
         /\ (kPc[k] \in {"locked", "cancelled", "chanClosed"}) => kFirst[k]
    /\ panicked => lastRes = "panic"

\* Two calls of Close have returned, the second without any effect.
C4_Witness ==
    \E k1, k2 \in Closers :
        /\ kPc[k1] = "returned" /\ kFirst[k1]
        /\ kPc[k2] = "returned" /\ ~kFirst[k2] /\ kRes[k2] = "nil"
        /\ nCancel = 1 /\ nChanClose = 1 /\ nWsClose = 1

\* C5: the frames the write pump has written are, in order and without
\* duplicates, an initial part of the frames whose Send returned nil.
C5_WriteOrder == IsPrefix(written, accepted)

\* Frames of two concurrent senders were written, one by the drain loop.
C5_Witness ==
    /\ Len(written) >= 3
    /\ nDrained >= 1
    /\ written = accepted

\* C9 as stated: a Send whose select finds the connection open and the queue
\* full returns the queue-full error.
C9_FullReturnsQueueFull == lastFull => lastRes = "full"

\* C9 as amended: a Send whose caller's context is not cancelled and whose
\* select finds the connection open and the queue full returns the
\* queue-full error in that step, and the step leaves the queue, the closed
\* flag, the connection context and the transport as they were.
C9_FullLiveCtx ==
    [][\A s \in Senders :
          (/\ sPc[s] = "select" /\ sPc'[s] = "idle"
           /\ ~closed /\ Len(sendChan) >= SendCap /\ ~sCtx[s])
          => (/\ lastRes' = "full"
              /\ sendChan' = sendChan /\ accepted' = accepted
              /\ closed' = closed /\ cctxDone' = cctxDone
              /\ chanClosed' = chanClosed /\ wsClosed' = wsClosed)]_vars

\* A Send with a live context has returned the queue-full error from an
\* open connection whose queue is still full.
C9_Witness ==
    /\ lastFull /\ ~lastCtx /\ lastRes = "full"
    /\ ~closed /\ Len(sendChan) = SendCap

----------------------------------------------------------------------------
(* Properties of hub.Hub, checked under SpecHub *)

\* C1: in every reachable state the registry holds at most one client per
\* id, whatever registrations, unregistrations, deliveries and stop did.
C1_OneClientPerId ==
    \A id \in Ids : Cardinality({e \in clients : IdOf(e.client) = id}) <= 1

\* The worker has turned away a second client object with a registered id.
C1_Witness ==
    /\ wLast = "dupRegister"
    /\ \E c \in Created \ Registered, d \in Registered : IdOf(c) = IdOf(d)

\* C2: the worker handling a register request whose id is in the registry
\* changes nothing but the request queue: the registry (so the client
\* registered first stays), the transports, the clients' conn fields, the
\* frames delivered and the counters are as they were.
C2_DuplicateRegisterNoOp ==
    [][(/\ workerUp /\ regQ # <<>> /\ regQ' = Tail(regQ)
        /\ Has(IdOf(Head(regQ))))
       => (/\ clients' = clients
           /\ tClosed' = tClosed /\ cConnNil' = cConnNil
           /\ tOut' = tOut
           /\ messagesSent' = messagesSent
           /\ messagesReceived' = messagesReceived)]_vars

\* After a duplicate registration the first client is registered and open.
C2_Witness ==
    /\ wLast = "dupRegister"
    /\ \E e \in clients :
         /\ ~tClosed[ConnOf(e.client)] /\ ~cConnNil[e.client]
         /\ \E c \in Created : c > e.client /\ IdOf(c) = e.key

\* C7: when Stop has returned, the transport of every client that was in
\* the registry when Stop was invoked is closed.
C7_StopClosesAll ==
    stopPc = "returned" => \A c \in stopSnapshot : tClosed[ConnOf(c)]

\* Stop has returned after closing two registered clients itself.
C7_Witness ==
    /\ stopPc = "returned"
    /\ Cardinality(stopSnapshot) >= 2
    /\ \A c \in stopSnapshot : c \in Registered /\ cConnNil[c]

\* C8: when Stop has returned, GetStats reports no connected client.
C8_StopEmptiesRegistry == stopPc = "returned" => ConnectedClients = 0

\* C10: the worker handling a send_to for an id that is not in the registry
\* delivers no frame, leaves the registry, every transport and every client
\* as they were, counts no message as sent and keeps running.
C10_SendToAbsent ==
    [][(/\ workerUp /\ sendToQ # <<>> /\ sendToQ' = Tail(sendToQ)
        /\ ~Has(Head(sendToQ).clientID))
       => (/\ tOut' = tOut
           /\ clients' = clients
           /\ tClosed' = tClosed /\ cConnNil' = cConnNil
           /\ messagesSent' = messagesSent
           /\ hPanicked' = hPanicked /\ workerUp' = workerUp)]_vars

\* A send_to for an absent id was dropped while a registered client (the
\* sender) is open and has received nothing.
C10_Witness ==
    /\ wLast = "notFound"
    /\ \E c \in Registered :
         ~tClosed[ConnOf(c)] /\ ~cConnNil[c] /\ tOut[ConnOf(c)] = <<>>

----------------------------------------------------------------------------
(* Properties of the relay path, checked under SpecRelay *)

\* C6: for every relayed envelope the bytes handed to SendTo are exactly the
\* bytes of the frame the sender transmitted, and every frame delivered to
\* a registered peer is such a frame.
C6_VerbatimForwarding ==
    /\ \A r \in rLog : r.fwd = r.orig
    /\ \A c \in Clients : \A i \in 1..Len(tOut[c]) :
          \E r \in rLog : tOut[c][i] = r.orig /\ r.to = IdOf(c)

----------------------------------------------------------------------------
(* Properties of the producer operations of hub.Hub, checked under SpecHub *)

\* C11: a call of Register, Unregister, SendTo or Broadcast made when the
\* hub's context is done returns the context-cancelled (Stopped) error,
\* enqueues nothing and does not panic.
C11_StoppedProducers ==
    [][(hOps' # hOps /\ hCtxDone)
       => (/\ pLast' = "cancelled"
           /\ regQ' = regQ /\ unregQ' = unregQ
           /\ sendToQ' = sendToQ /\ bcastQ' = bcastQ
           /\ ~hPanicked')]_vars

\* C12: every producer call returns at once, with nil after enqueueing or
\* with an error, and never panics; a call that finds its queue full returns
\* the queue-full error and leaves the queue as it was.
C12_ProducersNonBlocking ==
    [][/\ (hOps' # hOps)
            => (~hPanicked' /\ pLast' \in {"nil", "cancelled", "full"})
       /\ \A c \in Clients, id \in Ids :
            (Register(c, id) /\ Len(regQ) >= RegCap)
                => (pLast' = "full" /\ regQ' = regQ)
       /\ \A id \in Ids :
            (Unregister(id) /\ Len(unregQ) >= RegCap)
                => (pLast' = "full" /\ unregQ' = unregQ)
       /\ (Broadcast(FreshMsg) /\ Len(bcastQ) >= MsgCap)
                => (pLast' = "full" /\ bcastQ' = bcastQ)
       /\ \A id \in Ids :
            (SendTo(id, FreshMsg) /\ Len(sendToQ) >= MsgCap)
                => (pLast' = "full" /\ sendToQ' = sendToQ)]_vars

----------------------------------------------------------------------------
(* Properties of Hub.Start, checked under SpecStart *)

\* C13: a second or later call of Start spawns no worker and leaves the hub
\* context as the first call set it: at most one worker is running at any
\* time, h.ctx is the context of the first call, and when a call of Stop
\* has cancelled the context no worker waits on a context that is live.
C13_StartIdempotent ==
    /\ Cardinality(RunningWorkers) <= 1
    /\ gCtx <= 1
    /\ gStop # "idle" => \A w \in RunningWorkers :
                             gWorker[w] = "select" => gDone[gWait[w]]

----------------------------------------------------------------------------
(* Ownership of the registry, checked under SpecHub *)

\* C14: every step that changes the registry is a step of the running
\* worker that takes a request from the register queue and stores its
\* client, or takes an id from the unregister queue and deletes its entry;
\* no producer call, no step of Stop and no other step changes it.
C14_RegistryOnlyWorker ==
    [][clients' # clients
       => (/\ workerUp
           /\ hOps' = hOps /\ stopPc' = stopPc
           /\ \/ /\ regQ # <<>> /\ regQ' = Tail(regQ)
                 /\ clients' = Store(IdOf(Head(regQ)), Head(regQ))
              \/ /\ unregQ # <<>> /\ unregQ' = Tail(unregQ)
                 /\ clients' = clients \ Load(Head(unregQ)))]_vars

\* The worker has inserted and deleted entries, producers have been called
\* and Stop has run to its end, leaving the registry as the worker left it.
C14_Witness ==
    /\ wLast = "unregistered"
    /\ clients # {}
    /\ hOps = MaxOps
    /\ stopPc = "returned"

----------------------------------------------------------------------------
(* Teardown of websocket.Connection, checked under SpecConn *)

\* C16: when Close has closed the transport, every frame whose Send had
\* returned nil before Close was invoked has been written by the write pump.
C16_DrainBeforeClose ==
    nWsClose > 0 => \A i \in 1..nAtClose :
                       \E j \in 1..Len(written) : written[j] = accepted[i]

----------------------------------------------------------------------------
(* Close of the Client that joins its pumps, checked under SpecJoin *)

\* C17: every call of Close, by the read pump, the hub worker or an external
\* caller, returns; and when a call by the worker or an external caller has
\* returned, the read pump and the write pump have exited.
C17_CloseReturns ==
    /\ \A k \in JoinCallers :
         (jk[k] \notin {"idle", "returned"}) ~> (jk[k] = "returned")
    /\ [](\A k \in JoinCallers \ {"readPump"} :
             jk[k] = "returned" => (jRead = "exited" /\ jWrite = "exited"))

----------------------------------------------------------------------------
(* Properties of a signaling session, checked under SpecSess and
   SpecSessLive *)

\* C15: a client that is in the registry when its Connection is closed is
\* eventually removed from the registry by the hub (as long as the hub's
\* context is live, that is, its worker runs).
C15_RemovedOnClose ==
    \A id \in Ids : (closed /\ Has(id)) ~> (~Has(id) \/ hCtxDone)

\* C18: the step of the read pump in which router.Handle returns an error
\* leaves the pump in its loop and the connection as it was: the closed
\* flag, the connection context, the send queue, the transport and the
\* callers of Close are unchanged, and nothing is sent.
C18_HandlerErrorKeepsConnection ==
    [][(rpFrames' = rpFrames + 1 /\ rRet'.err # "nil")
       => (/\ rpPc' = "select"
           /\ closed' = closed /\ cctxDone' = cctxDone
           /\ chanClosed' = chanClosed /\ wsClosed' = wsClosed
           /\ kPc' = kPc /\ sendChan' = sendChan
           /\ panicked' = panicked)]_vars

\* After a frame whose handling ended in an error, the next frame was
\* routed and handled without error on the open connection.
C18_Witness ==
    /\ rAfterErr /\ rpFrames = 2
    /\ rRet.err = "nil"
    /\ ~closed /\ ~wsClosed /\ rpPc = "blocked"

\* C19: for every envelope routed, the router invokes exactly the handler
\* registered for its type and returns what that handler returned; for a
\* type without handler it invokes none, returns an error and no response,
\* the hub is not called and nothing is sent to the sender.
C19_RouterDispatch ==
    [][rpFrames' = rpFrames + 1
       => (/\ rFrame'.type = "register_request"
                => rInvoked' = {"RegisterRequestHandler"}
           /\ rFrame'.type = "sdp" => rInvoked' = {"SDPHandler"}
           /\ rFrame'.type = "candidate" => rInvoked' = {"ICECandidateHandler"}
           /\ rFrame'.type = "data_channel"
                => rInvoked' = {"DataChannelHandler"}
           /\ rFrame'.type \in {"register_request", "sdp", "candidate",
                                "data_channel"}
                => rRet' = rHret'
           /\ rFrame'.type \in {"register_response", "unregister_request"}
                => (/\ rInvoked' = {}
                    /\ rRet'.err = "unknownType" /\ rRet'.resp = NoResp
                    /\ rSent' = "none"
                    /\ hubVars' = hubVars
                    /\ sendChan' = sendChan))]_vars

\* A registration was dispatched and answered, and then an envelope of a
\* type without handler was dropped with an error.
C19_Witness ==
    /\ rFrame.type = "unregister_request"
    /\ rRet.err = "unknownType"
    /\ rInvoked = {}
    /\ clients # {}
    /\ Len(accepted) = 1

C21_FailureReported ==
    (/\ rFrame.type = "register_request" /\ rFrame.okData
     /\ rHret.err = "register")
        => (/\ rSent = "nil"
            /\ accepted # <<>>
            /\ accepted[Len(accepted)].type = "register_response"
            /\ ~accepted[Len(accepted)].success)

----------------------------------------------------------------------------
(* Order and hand-off in the hub worker, checked under SpecHub *)

\* C23: the worker handles requests in the order they were accepted, across
\* the four queues.  The messages of SendTo and Broadcast carry the number
\* of their call, and a message whose number is hOps was submitted by the
\* latest call: when the worker takes a send_to or a broadcast, no request
\* accepted earlier waits in another queue; in particular a send_to is not
\* handled while a register of the same id, accepted before it, waits.
C23_ArrivalOrder ==
    [][/\ (workerUp /\ sendToQ # <<>> /\ sendToQ' = Tail(sendToQ))
            => (/\ \A i \in 1..Len(bcastQ) : bcastQ[i] > Head(sendToQ).message
                /\ Head(sendToQ).message = hOps
                     => (/\ unregQ = <<>>
                         /\ \A i \in 1..Len(regQ) :
                              cId[regQ[i]] # Head(sendToQ).clientID))
       /\ (workerUp /\ bcastQ # <<>> /\ bcastQ' = Tail(bcastQ))
            => (/\ \A i \in 1..Len(sendToQ) :
                     sendToQ[i].message > Head(bcastQ)
                /\ Head(bcastQ) = hOps => (regQ = <<>> /\ unregQ = <<>>))]_vars

\* C25: the worker hands a frame only to a client that is in the registry
\* at the moment of the hand-off: a step that writes a frame to the
\* transport of a client finds that client in the registry, and a client
\* that is not in the registry (never stored, or removed by a handled
\* unregister) receives nothing.
C25_NoDeliverAfterUnregister ==
    [][\A c \in Clients :
         tOut'[ConnOf(c)] # tOut[ConnOf(c)]
            => (/\ c \in Registered
                /\ c \in {e.client : e \in clients'}
                /\ workerUp)]_vars

\* A client was stored, then removed and closed by a handled unregister, and
\* a send_to addressed to its id, handled afterwards, found no client: the
\* client has received nothing.
C25_Witness ==
    /\ wLast = "notFound"
    /\ hOps = MaxOps
    /\ \E c \in Created :
         /\ c \notin Registered
         /\ cConnNil[c]
         /\ tOut[ConnOf(c)] = <<>>

\* C24: the frames of accepted send_to calls reach the transport of one
\* recipient in the order in which the calls were accepted.  SendTo submits
\* the number of its call as the frame: an accepted call joins the queue
\* behind every call accepted before it; the worker takes the oldest
\* request waiting, and the frame it hands over is written behind every
\* frame the recipient's transport has received.
C24_PerRecipientOrder ==
    [][/\ (hOps' # hOps /\ sendToQ' # sendToQ)
            => (/\ sendToQ' = Append(sendToQ, sendToQ'[Len(sendToQ')])
                /\ \A i \in 1..Len(sendToQ) :
                     sendToQ[i].message < sendToQ'[Len(sendToQ')].message)
       /\ (hOps' = hOps /\ sendToQ' # sendToQ)
            => (/\ \A i \in 1..Len(sendToQ') :
                     sendToQ'[i].message > Head(sendToQ).message
                /\ \A t \in Clients :
                     tOut'[t] # tOut[t]
                        => tOut'[t] = Append(tOut[t], Head(sendToQ).message))
      ]_vars

\* Two send_to calls for one registered recipient were accepted; the worker
\* has written the frame of the first to the recipient's transport, and the
\* second waits in the queue.
C24_Witness ==
    \E c \in Registered :
        /\ wLast = "sent"
        /\ tOut[ConnOf(c)] = <<2>>
        /\ sendToQ = <<[clientID |-> IdOf(c), message |-> 3]>>

----------------------------------------------------------------------------
(* Send with a cancelled caller context, checked under SpecConn *)

\* C26: a Send on an open connection whose caller's context is already
\* cancelled returns the context's error and enqueues nothing, and leaves
\* the closed flag, the connection context and the queue as they were.
C26_CancelledSendAborts ==
    [][\A s \in Senders :
          (/\ sPc[s] = "select" /\ sPc'[s] = "idle" /\ sCtx[s]
           /\ ~closed /\ ~cctxDone /\ ~chanClosed)
          => (/\ lastRes' = "ctxErr"
              /\ sendChan' = sendChan /\ accepted' = accepted
              /\ closed' = closed /\ cctxDone' = cctxDone
              /\ chanClosed' = chanClosed)]_vars

----------------------------------------------------------------------------
(* Delivery and backpressure, checked under SpecDeliver *)

\* C22: a call of SendTo addressed to a registered recipient whose
\* Connection is open and has its send queue full returns the queue-full
\* error to its caller, and the request is not taken on.
C22_BackpressureQueueFull ==
    [][\A id \in Ids :
          (/\ SendTo(id, FreshMsg)
           /\ \E e \in Load(id) : ConnOf(e.client) = ConnTransport
           /\ ~closed /\ Len(sendChan) >= SendCap)
          => (pLast' = "full" /\ sendToQ' = sendToQ)]_vars

\* C29: a frame the hub delivers to a registered peer is enqueued on the send
\* queue of that peer's Connection and written by its write pump: the step
\* that counts a frame as sent writes to no transport, and for the peer of
\* the Connection it appends the frame to the send queue; and the write
\* pump never writes while the hub worker is inside a write on the same
\* transport.
C29_SingleTransportWriter ==
    [][/\ messagesSent' = messagesSent + 1
            => (/\ tOut' = tOut
                /\ ConnOf(dwTo) = ConnTransport
                     => sendChan' = Append(sendChan, dwMsg))
       /\ written' # written
            => ~(dwPc = "writing" /\ ConnOf(dwTo) = ConnTransport)]_vars

\* C30: the hub worker never waits for a recipient's transport: it is never
\* inside a write on a stalled transport while a request of another peer (a
\* registration, or a send_to for another id) waits in the hub's queues.
C30_WorkerNeverWaits ==
    ~(/\ dwPc = "writing"
      /\ dStalled[ConnOf(dwTo)] /\ ~tClosed[ConnOf(dwTo)]
      /\ \/ regQ # <<>>
         \/ \E i \in 1..Len(sendToQ) : sendToQ[i].clientID # IdOf(dwTo))

----------------------------------------------------------------------------
(* Precedence of the configuration sources, checked under SpecConfig *)

\* C27: for every combination of file, environment and flags, each of host,
\* port and log level comes from the flag if it is given, else from the
\* environment variable if it is set (to a number, for the port), else from
\* the file if one is given and holds it, else from the defaults; also when
\* no file is given.
C27_ConfigPrecedence ==
    cfgOut.given =>
        \A s \in Settings :
            cfgOut.cfg[s] =
                IF s \in cfgIn.flag THEN "flag"
                ELSE IF s \in cfgIn.env /\ ~(s = "port" /\ cfgIn.envPortText)
                    THEN "env"
                ELSE IF s \in cfgIn.file THEN "file"
                ELSE "default"

----------------------------------------------------------------------------
(* The round trip of the codec, checked under SpecCodec *)

\* C28: decoding the bytes Encode returned for an envelope yields an
\* envelope equal to the one encoded, and its data are the bytes given.
C28_CodecRoundTrip ==
    eDec.given => (eDec.msg = eMsg /\ eDec.msg.Data = eMsg.Data)

----------------------------------------------------------------------------
(* Send racing with Close, checked under SpecConn *)

\* C31: under every interleaving of calls of Send and Close no call of Send
\* attempts the enqueue on the closed queue: no call panics, each returns
\* nil after enqueueing on the open queue or returns an error.
C31_NoSendOnClosedQueue ==
    /\ ~panicked
    /\ lastRes \in {"none", "nil", "closed", "ctxErr", "connCtxDone", "full"}

----------------------------------------------------------------------------
(* The fan-out of a broadcast, checked under SpecHub *)

----------------------------------------------------------------------------
(* Cancellation of the context passed to Start, checked under
   SpecSessCancel *)

\* C33: once the context passed to Start is cancelled on a started
\* Connection, eventually the Connection's own context is cancelled, the
\* read pump and the write pump have exited, and the Connection is closed.
C33_StartCtxCancelStops ==
    (startCtxDone /\ wPc # "new")
        ~> (cctxDone /\ closed /\ rpPc = "exited" /\ wPc = "exited")

\* The context passed to Start was cancelled while the Connection was open;
\* no frame arrived afterwards, the read deadline passed, and the
\* Connection is closed with both pumps gone and the transport closed by the
\* Connection itself.
C33_Witness ==
    /\ startCtxDone /\ cctxDone /\ closed
    /\ rpPc = "exited" /\ wPc = "exited"
    /\ nWsClose = 1
    /\ rpFrames = 0

----------------------------------------------------------------------------
(* Protocol errors, checked under SpecSess *)

\* C34: the step of the read pump that reads a frame which is not an
\* envelope, an envelope whose payload its handler cannot decode, or an
\* envelope of a type without handler puts nothing on the sender's queue,
\* calls no producer of the hub (no request on any hub queue), and leaves
\* the connection running: the pump is back at its select, the closed flag,
\* the contexts, the queue and the transport are as they were.
C34_ProtocolErrorChangesNothing ==
    [][(/\ rpFrames' = rpFrames + 1
        /\ \/ rFrame' = BadFrame
           \/ rRet'.err \in {"unmarshal", "unknownType"})
       => (/\ rSent' = "none"
           /\ sendChan' = sendChan /\ accepted' = accepted
           /\ hubVars' = hubVars
           /\ rpPc' = "select"
           /\ closed' = closed /\ cctxDone' = cctxDone
           /\ chanClosed' = chanClosed /\ wsClosed' = wsClosed
           /\ kPc' = kPc /\ wPc' = wPc
           /\ panicked' = panicked)]_vars

\* While the hub runs, an envelope that was dropped with an error (payload
\* not decodable, or no handler for its type) and then a frame that is not
\* an envelope were read: no producer of the hub
\* was called, nothing was queued for the sender, and the pump is reading
\* again on the open connection.
C34_Witness ==
    /\ rpFrames = MaxFrames
    /\ rFrame = BadFrame /\ rAfterErr
    /\ hStarted /\ workerUp /\ hOps = 0
    /\ accepted = <<>> /\ sendChan = <<>>
    /\ ~closed /\ ~wsClosed /\ wPc = "select" /\ rpPc = "blocked"

----------------------------------------------------------------------------
(* The close frame, checked under SpecConn *)

\* C35: when Close closes the transport of a Connection whose pumps were
\* started, the write pump has already written a close frame.
C35_CloseFrameBeforeTransportClose ==
    [][(wPc # "new" /\ nWsClose' > nWsClose) => closeFrames > 0]_vars

----------------------------------------------------------------------------
(* Requests queued when Stop is called, checked under SpecHubLive *)

\* C36: a request that is on a queue of the hub when Stop is invoked has
\* been taken off that queue by the worker when Stop has returned.  Stated
\* for the requests that can be told apart: the client objects on the
\* register queue and the numbered frames on the send_to and broadcast
\* queues.
C36_StopDrains ==
    /\ \A c \in Clients :
         []((stopPc = "idle" /\ \E i \in 1..Len(regQ) : regQ[i] = c)
              => [](stopPc = "returned"
                      => ~\E i \in 1..Len(regQ) : regQ[i] = c))
    /\ \A m \in 1..MaxOps :
         []((stopPc = "idle" /\ \E i \in 1..Len(sendToQ) :
                                   sendToQ[i].message = m)
              => [](stopPc = "returned"
                      => ~\E i \in 1..Len(sendToQ) : sendToQ[i].message = m))
    /\ \A m \in 1..MaxOps :
         []((stopPc = "idle" /\ \E i \in 1..Len(bcastQ) : bcastQ[i] = m)
              => [](stopPc = "returned"
                      => ~\E i \in 1..Len(bcastQ) : bcastQ[i] = m))

----------------------------------------------------------------------------
(* A failed socket and the hub with unbuffered channels, checked under
   SpecLegacy *)

\* C37: once the read goroutine and the write loop of some socket have
\* exited, every call of Register, Unregister or SendMessage that waits for
\* the worker is eventually received, and the worker, whatever request it
\* handles (one addressed to that socket included), is eventually back at
\* its select; no goroutine panics.
C37_FailedSocketNotFatal ==
    /\ \A q \in Sockets :
         ((\E s \in Sockets : sRead[s] = "exited" /\ sWrite[s] = "exited")
            /\ sRead[q] \in HubCalls)
           ~> (sRead[q] \notin HubCalls)
    /\ ((\E s \in Sockets : sRead[s] = "exited" /\ sWrite[s] = "exited")
          /\ lwPc # "select")
         ~> (lwPc = "select")

----------------------------------------------------------------------------
(* Queueing of ICE candidates, checked under SpecIce *)

\* C40: when SetRemoteDescription has returned and no call of
\* AddICECandidate is in progress, no candidate is pending and every
\* candidate passed to AddICECandidate has been given to the underlying
\* peer connection.
C40_NoCandidateLost ==
    (dPc = "returned" /\ \A a \in Adders : aPc[a] = "idle")
        => /\ iPending = <<>>
           /\ \A c \in 1..iNext : \E i \in 1..Len(iApplied) : iApplied[i] = c

----------------------------------------------------------------------------
(* The answer to a register request and the registry, checked under
   SpecHub *)

\* C38: a client on the register queue is one whose Register returned nil,
\* so that its connection is answered success = true for its id.  When the
\* worker has handled the request of such a client, and its transport is
\* still open, the registry maps the id to that client.
C38_SuccessImpliesRegistered ==
    [][\A c \in Clients :
         (/\ workerUp /\ regQ # <<>> /\ Head(regQ) = c /\ regQ' = Tail(regQ)
          /\ ~tClosed[ConnOf(c)])
           => [key |-> IdOf(c), client |-> c] \in clients']_vars

----------------------------------------------------------------------------
(* The counters of the hub in a run that uses send_to only, checked under
   SpecStat *)

\* C39: in every reachable state messagesSent is at most messagesReceived.
C39_SentAtMostReceived == messagesSent <= messagesReceived

====
